---- MODULE Spec2Model ----
(***************************************************************************)
(* Verification model of toridoriv/my-dev-toolkit.                         *)
(*                                                                         *)
(* The repository holds several independent components; each one is a      *)
(* specification of its own over the variables it owns:                    *)
(*   SpecLogger    tools/logger.ts and the logger of unnamed/part_003      *)
(*   SpecTemplate  tools/template.ts                                       *)
(*   SpecCli       unnamed/part_000 and bin/run.ts (command runner)        *)
(*   SpecFlag      stringifyFlag of the command runner                     *)
(***************************************************************************)
EXTENDS Integers, Sequences, FiniteSets, TLC

VARIABLES
  \* ---- logger ----
  source,         \* which logger file the Logger object was built from
  settings,       \* BaseLogger.settings
  severityLevel,  \* BaseLogger.severityLevel
  transported,    \* per transport: number of invocations since construction
  lastCall,       \* the last log call made: method, severity, level, options
  emitted,        \* transport invocations made by the last call, in order
  outcome,        \* how the last call ended: "none", "returned", "threw"
  returned,       \* the LogObject the last call returned
  calls,          \* number of log calls made so far
  \* ---- template ----
  template,       \* the Template object: its text and its default replacements
  rendered,       \* the last render / partialRender call and how it ended
  \* ---- command runner ----
  entry,          \* which entry point runs: unnamed/part_000 or bin/run.ts
  isMain,         \* import.meta.main
  binDir,         \* the scripts directory: whether listing works, and its files
  remote,         \* the module behind the built-in default path
  pc,             \* position of the start-up code
  abortCause,     \* what the start-up code threw, if it did
  localPaths,     \* the const localPaths
  paths,          \* the paths handed to getAllModuleImports, in order
  pending,        \* indices of paths whose import has not settled yet
  imported,       \* per index of paths: the exports of the imported module
  settled,        \* the indices of paths in the order their imports completed
  subcommands,    \* the const subcommands
  registered,     \* the commands of the root command, in registration order
  parsed,         \* whether run.parse(Deno.args) was called
  \* ---- stringifyFlag ----
  flag,           \* the flag given to stringifyFlag
  declaration,    \* the declaration it returned
  \* ---- Git ----
  gitOptions,     \* the default options given to new Git
  gitPc,          \* whether the Git object is constructed
  gitBody,        \* the body of the function the Git object is
  invoked,        \* the git subprocesses run so far
  gitReturned,    \* what the last operation returned
  history,        \* the commits of the repository, as git log prints them
  gitCall,        \* the last operation called on the Git object, with its inputs
  \* ---- environment ----
  environ,        \* Deno.env, the variables the runner reads
  setup,          \* what getSetup returned
  envRead,        \* the last call of getFromEnvironment by other code
  urlValue,       \* the string given to isHttpUrl
  urlResult,      \* what isHttpUrl returned
  versionObject,  \* the VersionObject the methods are called on
  nextVersion,    \* what getNextVersion and the method of its release type returned
  tryFn,          \* the function given to tryCatch
  tryFallback,    \* the fallback given to tryCatch
  tryOutcome,     \* how the call of tryCatch ended
  callsitesSource,\* which file callsites comes from
  prepareStackTrace,\* the global Error.prepareStackTrace
  savedPrepareStackTrace,\* the const _prepareStackTrace of the running or last call
  callsitesPc,    \* position of the running call of callsites
  callsitesCall,  \* the running or last call of callsites: caller, error, outcome
  parentLogger,   \* a logger built with new Logger(settings)
  subLogger,      \* the logger getSubLogger returned
  formattedBy,    \* the logger whose format ran last, and the mode it formatted in
  staged,         \* the render call made on the template partialRender returned
  initDenoSource, \* which file init-deno comes from
  targetPath,     \* the path argument of the command
  targetExisted,  \* whether the target directory existed before the command
  unreachable,    \* the remote files whose fetch rejects
  initDenoPc,     \* the statement the action is at, 0 when it is not running
  initDenoOutcome,\* none, running, resolved or rejected
  fsDirs,         \* the directories that exist, besides that of the process
  fsFiles,        \* the files the command has written
  events          \* what the action has done so far, in order

loggerVars == <<source, settings, severityLevel, transported, lastCall, emitted,
                outcome, returned, calls>>

templateVars == <<template, rendered>>

cliVars == <<entry, isMain, binDir, remote, pc, abortCause, localPaths, paths,
             pending, imported, settled, subcommands, registered, parsed>>

flagVars == <<flag, declaration>>

gitVars == <<gitOptions, gitPc, gitBody, invoked, gitReturned, history, gitCall>>

envVars == <<environ, setup, envRead>>

urlVars == <<urlValue, urlResult>>

versionVars == <<versionObject, nextVersion>>

tryVars == <<tryFn, tryFallback, tryOutcome>>

callsitesVars == <<callsitesSource, prepareStackTrace, savedPrepareStackTrace, callsitesPc, callsitesCall>>

subLoggerVars == <<parentLogger, subLogger, formattedBy>>

stagedVars == <<staged>>

initDenoVars == <<initDenoSource, targetPath, targetExisted, unreachable, initDenoPc, initDenoOutcome, fsDirs, fsFiles, events>>

vars == <<loggerVars, templateVars, cliVars, flagVars, gitVars, envVars, urlVars, versionVars, tryVars, callsitesVars, subLoggerVars, stagedVars, initDenoVars>>

(***************************************************************************)
(* Bounds of the model.                                                    *)
(***************************************************************************)
MaxCalls == 3
MaxTextLen == 4
MaxFiles == 2
MaxGitCalls == 1

(***************************************************************************)
(* JavaScript's undefined, for string-valued fields.                       *)
(***************************************************************************)
Undefined == "<undefined>"

(***************************************************************************)
(* LoggerConfig                                                            *)
(***************************************************************************)
SeverityName == {"SILENT", "DEBUG", "INFORMATIONAL", "WARNING", "ERROR"}

SeverityLevel ==
  [n \in SeverityName |->
     CASE n = "SILENT" -> 0
       [] n = "DEBUG" -> 1
       [] n = "INFORMATIONAL" -> 2
       [] n = "WARNING" -> 3
       [] n = "ERROR" -> 4]

SeverityNameByLevel ==
  [l \in 0..4 |-> CHOOSE n \in SeverityName : SeverityLevel[n] = l]

LevelName == {"ERROR", "WARN", "INFO", "HTTP", "DEBUG"}

Mode == {"PRETTY", "JSON"}

\* padding: z.number().int().default(LevelName.Debug.length + 1)
DefaultPadding == Len("DEBUG") + 1

LoggerSources == {"tools/logger.ts", "unnamed/part_003"}

\* JavaScript's undefined, for number-valued fields.
UndefinedNumber == 0 - 1

(***************************************************************************)
(* Inputs of the log calls.                                                *)
(***************************************************************************)
Messages == {"hello"}

\* The extra arguments of a call: none, a string, a BigInt.
ArgLists == {<< >>, <<"x">>, <<"10n">>}

\* Values JSON.stringify raises a TypeError for.
NotSerialisable == {"10n"}

\* No error given (args[0] is undefined).
NoError ==
  [given |-> FALSE, isError |-> FALSE, name |-> Undefined, message |-> Undefined,
   code |-> Undefined, id |-> Undefined, title |-> Undefined]

Errors ==
  { [given |-> TRUE, isError |-> TRUE, name |-> "TypeError", message |-> "Oops!",
     code |-> Undefined, id |-> Undefined, title |-> Undefined],
    [given |-> TRUE, isError |-> TRUE, name |-> "Error", message |-> "Oops!",
     code |-> "1234", id |-> "abcd-efgh", title |-> Undefined],
    [given |-> TRUE, isError |-> FALSE, name |-> Undefined, message |-> Undefined,
     code |-> "E42", id |-> "id-1", title |-> "Bad thing"] }

NoRequest ==
  [given |-> FALSE, id |-> Undefined, httpVersion |-> Undefined, method |-> Undefined,
   originalUrl |-> Undefined, contentType |-> Undefined, referrer |-> Undefined]

Requests ==
  { [given |-> TRUE, id |-> "req-1", httpVersion |-> "1.1", method |-> "GET",
     originalUrl |-> "/index", contentType |-> Undefined, referrer |-> Undefined] }

NoResponse ==
  [given |-> FALSE, contentType |-> Undefined, duration |-> UndefinedNumber,
   statusCode |-> UndefinedNumber]

StatusCodes == {UndefinedNumber, 0, 100, 200, 302, 404, 500, 600}

Durations == {UndefinedNumber, 0, 7}

Responses ==
  { [given |-> TRUE, contentType |-> "text/html", duration |-> d, statusCode |-> c] :
      d \in Durations, c \in StatusCodes }

(***************************************************************************)
(* LogObject                                                               *)
(***************************************************************************)
NoData == [defined |-> FALSE, items |-> << >>]

\* The field initialisers of the class: the record `new LogObject()` yields.
BlankLogObject ==
  [ message |-> "", log_level |-> "", data |-> NoData,
    labels |-> Undefined, tags |-> Undefined,
    log_logger |-> "unknown",
    log_origin_file_column |-> 0, log_origin_file_line |-> 0,
    log_origin_file_name |-> "", log_origin_file_path |-> "",
    error_code |-> Undefined, error_id |-> Undefined, error_message |-> Undefined,
    error_stack_trace |-> Undefined, error_type |-> Undefined,
    service_name |-> Undefined, service_version |-> Undefined,
    service_environment |-> Undefined, service_id |-> Undefined,
    event_duration |-> UndefinedNumber,
    http_version |-> Undefined, http_request_id |-> Undefined,
    http_request_method |-> Undefined, http_request_mime_type |-> Undefined,
    http_request_referrer |-> Undefined, http_request_url_original |-> Undefined,
    http_response_mime_type |-> Undefined,
    http_response_status_code |-> UndefinedNumber ]

\* The outermost frame of the stack captured for a log call: the calling file.
Origin ==
  [fileName |-> "file:///app/main.ts", lineNumber |-> 12, columnNumber |-> 7]

\* origin.fileName.substring(origin.fileName.lastIndexOf("/") + 1)
BaseName(path) == IF path = "file:///app/main.ts" THEN "main.ts" ELSE path

setBaseFields(log, message, args) ==
  [log EXCEPT !.message = message,
              !.data = [defined |-> TRUE, items |-> args],
              !.labels = Undefined,
              !.tags = Undefined]

\* tools/logger.ts: the four fields are copied from the error as they are;
\* the stack sites are added for instances of Error only.
setErrorFieldsTools(log, error) ==
  [log EXCEPT !.error_message = error.message,
              !.error_code = error.code,
              !.error_id = error.id,
              !.error_type = error.name,
              !.error_stack_trace =
                 IF error.isError THEN "callsites(error)" ELSE @]

\* unnamed/part_003: an Error gives its name as the id; any other object gives
\* code and id, and its message is overwritten by the joined stack lines.
setErrorFieldsPart003(log, error) ==
  IF error.isError
    THEN [log EXCEPT !.error_id = error.name,
                     !.error_message = error.message,
                     !.error_stack_trace = "stack(error)"]
    ELSE [log EXCEPT !.error_code = error.code,
                     !.error_id = error.id,
                     !.error_message = "stack()",
                     !.error_stack_trace = "stack()"]

setErrorFields(src, log, error) ==
  IF src = "tools/logger.ts"
    THEN setErrorFieldsTools(log, error)
    ELSE setErrorFieldsPart003(log, error)

setLogFields(log, level, logger) ==
  [log EXCEPT !.log_level = level,
              !.log_logger = logger,
              !.log_origin_file_column = Origin.columnNumber,
              !.log_origin_file_line = Origin.lineNumber,
              !.log_origin_file_name = BaseName(Origin.fileName),
              !.log_origin_file_path = Origin.fileName]

setRequestFields(log, request) ==
  [log EXCEPT !.http_version = request.httpVersion,
              !.http_request_id = request.id,
              !.http_request_method = request.method,
              !.http_request_mime_type = request.contentType,
              !.http_request_referrer = request.referrer,
              !.http_request_url_original = request.originalUrl]

\* event.duration is kept in tenths of a millisecond: `duration || 0.1`.
setResponseFields(log, response) ==
  [log EXCEPT !.event_duration =
                 IF response.duration = UndefinedNumber \/ response.duration = 0
                   THEN 1 ELSE response.duration * 10,
              !.http_response_mime_type = response.contentType,
              !.http_response_status_code = response.statusCode]

setServiceFields(log, environment, name, version, id) ==
  [log EXCEPT !.service_environment = environment,
              !.service_name = name,
              !.service_version = version,
              !.service_id = id]

\* new LogObject(error, request, response)
NewLogObject(src, error, request, response) ==
  LET l1 == IF error.given THEN setErrorFields(src, BlankLogObject, error)
                           ELSE BlankLogObject
      l2 == IF request.given THEN setRequestFields(l1, request) ELSE l1
  IN  IF response.given THEN setResponseFields(l2, response) ELSE l2

(***************************************************************************)
(* BaseLogger, PrettyLogger, JsonLogger                                    *)
(***************************************************************************)
isSilentMode(st, level, severity) ==
  IF st.severity = "SILENT" THEN TRUE ELSE severity < level

\* std http/status.ts: the status classes.
isInformationalStatus(status) == status >= 100 /\ status < 200
isSuccessfulStatus(status) == status >= 200 /\ status < 300
isRedirectStatus(status) == status >= 300 /\ status < 400
isErrorStatus(status) == status >= 400 /\ status < 600

getStatusColor(status) ==
  IF isErrorStatus(status) THEN "Error"
  ELSE IF isSuccessfulStatus(status) THEN "Successful"
  ELSE IF isInformationalStatus(status) THEN "Informational"
  ELSE IF isRedirectStatus(status) THEN "Redirection"
  ELSE "Default"

\* " ".repeat(n) raises a RangeError for a negative count.
PrettyTemplateThrows(st, level) == st.padding - Len(level) < 0

getPrettyTemplate(st, level, status) ==
  [ template |-> IF level = "HTTP" THEN "prettyHttpTemplate"
                 ELSE IF level = "ERROR" THEN "prettyErrorTemplate"
                 ELSE "prettyTemplate",
    statusColor |-> IF status # UndefinedNumber /\ status # 0
                      THEN getStatusColor(status) ELSE "none",
    levelTheme |-> level,
    spaces |-> st.padding - Len(level) ]

\* Whether format(logObject) raises instead of returning a string: in pretty
\* mode when the padding is shorter than the level name, in JSON mode when
\* the data cannot be serialised.
FormatThrows(st, log) ==
  IF st.mode = "PRETTY"
    THEN PrettyTemplateThrows(st, log.log_level)
    ELSE \E i \in 1..Len(log.data.items) : log.data.items[i] \in NotSerialisable

\* The formatted string: the serialised record in JSON mode, the filled
\* template in pretty mode.
Format(st, log) ==
  IF st.mode = "PRETTY"
    THEN [template |-> getPrettyTemplate(st, log.log_level,
                                         log.http_response_status_code),
          log |-> log,
          mode |-> "PRETTY"]
    ELSE [template |-> [template |-> "none", statusColor |-> "none",
                        levelTheme |-> "none", spaces |-> 0],
          log |-> log,
          mode |-> "JSON"]

LoggerName(st) ==
  IF st.module # Undefined /\ st.module # ""
    THEN st.application \o ":" \o st.module
    ELSE st.application

\* The record log() builds for a call.
BuildLogObject(src, st, level, options) ==
  setServiceFields(
    setLogFields(
      setBaseFields(
        NewLogObject(src, options.error, options.request, options.response),
        options.message, options.args),
      level, LoggerName(st)),
    st.environment, st.application, st.version, st.id)

\* What a gated call returns: tools/logger.ts returns the record it built,
\* unnamed/part_003 returns `new LogObject()` before building anything.
SilentResult(src, st, level, options) ==
  IF src = "tools/logger.ts"
    THEN BuildLogObject(src, st, level, options)
    ELSE BlankLogObject

\* A slip in the lookup: the transport of the logger's own severity is used.
TransportForConfigured(severity) == SeverityNameByLevel[2]

\* The transport a call of the given severity is handed to.
TransportFor(severity) == SeverityNameByLevel[severity]

\* BaseLogger.log(severity, level, options)
log(method, severity, level, options) ==
  /\ calls < MaxCalls
  /\ calls' = calls + 1
  /\ lastCall' = [method |-> method, level |-> level, severity |-> severity,
                  options |-> options]
  /\ UNCHANGED <<source, settings, severityLevel>>
  /\ UNCHANGED <<templateVars, cliVars, flagVars, gitVars, envVars, urlVars, versionVars, tryVars, callsitesVars, subLoggerVars, stagedVars, initDenoVars>>
  /\ IF isSilentMode(settings, severityLevel, severity)
       THEN /\ returned' = SilentResult(source, settings, level, options)
            /\ outcome' = "returned"
            /\ emitted' = << >>
            /\ UNCHANGED transported
       ELSE LET logObject == BuildLogObject(source, settings, level, options)
            IN  IF FormatThrows(settings, logObject)
                  THEN /\ outcome' = "threw"
                       /\ returned' = BlankLogObject
                       /\ emitted' = << >>
                       /\ UNCHANGED transported
                  ELSE LET t == TransportFor(severity)
                       IN  /\ emitted' = << [transport |-> t,
                                             formatted |-> Format(settings, logObject)] >>
                           /\ transported' = [transported EXCEPT ![t] = @ + 1]
                           /\ outcome' = "returned"
                           /\ returned' = logObject

PlainOptions(message, args) ==
  [message |-> message, args |-> args, error |-> NoError,
   request |-> NoRequest, response |-> NoResponse]

debug ==
  \E message \in Messages, args \in ArgLists :
    log("debug", SeverityLevel["DEBUG"], "DEBUG", PlainOptions(message, args))

info ==
  \E message \in Messages, args \in ArgLists :
    log("info", SeverityLevel["INFORMATIONAL"], "INFO", PlainOptions(message, args))

http ==
  \E request \in Requests, response \in Responses :
    log("http", SeverityLevel["INFORMATIONAL"], "HTTP",
        [message |-> "", args |-> << >>, error |-> NoError,
         request |-> request, response |-> response])

warn ==
  \E message \in Messages, args \in ArgLists :
    log("warn", SeverityLevel["WARNING"], "WARN", PlainOptions(message, args))

\* error(message, ...args): the first argument, if any, is the error.
error ==
  \E message \in Messages, err \in Errors \cup {NoError} :
    log("error", SeverityLevel["ERROR"], "ERROR",
        [message |-> message,
         args |-> IF err.given THEN <<err.name>> ELSE << >>,
         error |-> err, request |-> NoRequest, response |-> NoResponse])

(***************************************************************************)
(* The settings a Logger is constructed with (SettingsSchema.parse).       *)
(***************************************************************************)
Paddings == {4, DefaultPadding}

SettingsInputs ==
  { [id |-> Undefined, environment |-> "test", version |-> "0.1.0",
     severity |-> sv, padding |-> pd, mode |-> mo,
     module |-> md, application |-> "run"] :
      sv \in SeverityName, md \in {Undefined, "cli"}, pd \in Paddings, mo \in Mode }

NoCall ==
  [method |-> "none", level |-> "", severity |-> 0,
   options |-> PlainOptions("", << >>)]

(***************************************************************************)
(* Strings, as sequences of characters, and the String methods the         *)
(* template uses.                                                          *)
(***************************************************************************)
Chars == {"{", "}", "a", "b", " "}

\* All strings of at most n characters.
Strings(n) == UNION { [1..k -> Chars] : k \in 0..n }

\* s.substring(from - 1): the characters of s from position `from` on.
From(s, from) == SubSeq(s, from, Len(s))

\* Whether pat occurs in s at position i.
OccursAt(s, pat, i) ==
  /\ i >= 1
  /\ i + Len(pat) - 1 <= Len(s)
  /\ SubSeq(s, i, i + Len(pat) - 1) = pat

Contains(s, pat) == \E i \in 1..Len(s) : OccursAt(s, pat, i)

\* GetSubstitution of String.prototype.replaceAll for a string pattern:
\* in the replacement text "$$" stands for "$" and "$&" for the matched
\* text; a "$" followed by anything else is kept as it is.
RECURSIVE GetSubstitution(_, _)
GetSubstitution(matched, replacement) ==
  IF replacement = << >> THEN << >>
  ELSE IF Head(replacement) = "$" /\ Len(replacement) >= 2
            /\ replacement[2] = "$"
    THEN <<"$">> \o GetSubstitution(matched, From(replacement, 3))
  ELSE IF Head(replacement) = "$" /\ Len(replacement) >= 2
            /\ replacement[2] = "&"
    THEN matched \o GetSubstitution(matched, From(replacement, 3))
  ELSE <<Head(replacement)>> \o GetSubstitution(matched, Tail(replacement))

\* s.replaceAll(pat, replacement) for a non-empty string pattern: the
\* occurrences are found left to right, without overlap, in the original s.
RECURSIVE replaceAll(_, _, _)
replaceAll(s, pat, replacement) ==
  IF s = << >> THEN << >>
  ELSE IF OccursAt(s, pat, 1)
    THEN GetSubstitution(pat, replacement)
           \o replaceAll(From(s, Len(pat) + 1), pat, replacement)
  ELSE <<Head(s)>> \o replaceAll(Tail(s), pat, replacement)

RECURSIVE trimStart(_)
trimStart(s) ==
  IF s # << >> /\ Head(s) = " " THEN trimStart(Tail(s)) ELSE s

RECURSIVE trimEnd(_)
trimEnd(s) ==
  IF s # << >> /\ s[Len(s)] = " " THEN trimEnd(SubSeq(s, 1, Len(s) - 1)) ELSE s

\* s.trim()
trim(s) == trimEnd(trimStart(s))

\* The end of the match of /{.+?}/ that starts at position i of s, or 0:
\* "{", then as few characters as possible but at least one, then "}".
MatchEnd(s, i) ==
  IF i <= Len(s) /\ s[i] = "{" /\ \E j \in (i + 2)..Len(s) : s[j] = "}"
    THEN CHOOSE j \in (i + 2)..Len(s) :
           /\ s[j] = "}"
           /\ \A k \in (i + 2)..(j - 1) : s[k] # "}"
    ELSE 0

\* Array.from(value.matchAll(Template.placeholderRegex)).map((v) => v[0]),
\* scanning from position i.
RECURSIVE matchAllFrom(_, _)
matchAllFrom(s, i) ==
  IF i > Len(s) THEN << >>
  ELSE IF MatchEnd(s, i) # 0
    THEN <<SubSeq(s, i, MatchEnd(s, i))>> \o matchAllFrom(s, MatchEnd(s, i) + 1)
  ELSE matchAllFrom(s, i + 1)

matchAll(s) == matchAllFrom(s, 1)

(***************************************************************************)
(* Replacement objects: the own keys in insertion order, each with its     *)
(* value.                                                                  *)
(***************************************************************************)
KeysOf(rep) == { rep[i].key : i \in 1..Len(rep) }

ValueOf(rep, k) == rep[CHOOSE i \in 1..Len(rep) : rep[i].key = k].value

\* Object.hasOwn(rep, k)
HasOwn(k, rep) == k \in KeysOf(rep)

\* Names every object literal inherits from Object.prototype; each is kept
\* as one token of a string.
ObjectPrototypeKeys ==
  { <<"constructor">>, <<"toString">>, <<"valueOf">>, <<"hasOwnProperty">> }

\* `k in rep`: an own key of rep, or a name rep inherits.
KeyIn(k, rep) == HasOwn(k, rep) \/ k \in ObjectPrototypeKeys

RECURSIVE SelectPairs(_, _)
SelectPairs(rep, keep) ==
  IF rep = << >> THEN << >>
  ELSE IF Head(rep).key \in keep
    THEN <<Head(rep)>> \o SelectPairs(Tail(rep), keep)
  ELSE SelectPairs(Tail(rep), keep)

\* std deepMerge(record, other) on flat objects: the keys of record first,
\* then the new keys of other; a key of other takes other's value.
deepMerge(record, other) ==
  [i \in 1..Len(record) |->
     IF HasOwn(record[i].key, other)
       THEN [key |-> record[i].key, value |-> ValueOf(other, record[i].key)]
       ELSE record[i]]
    \o SelectPairs(other, KeysOf(other) \ KeysOf(record))

\* std filterKeys(record, (k) => !(k in replacements))
filterKeys(record, replacements) ==
  SelectPairs(record, { k \in KeysOf(record) : ~KeyIn(k, replacements) })

(***************************************************************************)
(* Template                                                                *)
(***************************************************************************)
\* `{${key}}`
Placeholder(key) == <<"{">> \o key \o <<"}">>

\* The loop of #render: one replaceAll per key, in key order.
RECURSIVE Substitute(_, _)
Substitute(endValue, rep) ==
  IF rep = << >> THEN endValue
  ELSE Substitute(replaceAll(endValue, Placeholder(Head(rep).key), Head(rep).value),
                  Tail(rep))

\* Template.#render(replacements, useDefaults)
RenderText(tpl, replacements, useDefaults) ==
  LET rep == IF useDefaults THEN deepMerge(tpl.replacements, replacements)
                            ELSE replacements
  IN  trim(Substitute(tpl.text, rep))

\* Template.#validate(value): the cause of the error it throws, if it throws.
ValidateThrows(value) == Len(matchAll(value)) # 0

\* A slip: only the first unresolved placeholder is reported.
ValidateCauseFirstOnly(tpl, value) ==
  [template |-> tpl.text, result |-> value,
   missingReplacements |-> SubSeq(matchAll(value), 1, 1)]

ValidateCause(tpl, value) ==
  [template |-> tpl.text, result |-> value, missingReplacements |-> matchAll(value)]

NoCause == [template |-> << >>, result |-> << >>, missingReplacements |-> << >>]

NoTemplate == [replacements |-> << >>, text |-> << >>]

\* new Template(value, defaults)
NewTemplate(value, defaults) == [replacements |-> defaults, text |-> value]

(***************************************************************************)
(* The templates and replacement objects the calls are tried on.           *)
(***************************************************************************)
Keys == { <<"a">>, <<"b">> }

Pair(k, v) == [key |-> k, value |-> v]

PlainValues == { <<"x">>, <<"{", "b", "}">> }

DollarValues == { <<"$", "$">>, <<"$", "&">> }

\* Supplied replacements: none, one key with any value, or both keys in
\* either order.
Supplied ==
  { << >> }
    \cup { <<Pair(k, v)>> : k \in Keys, v \in PlainValues \cup DollarValues }
    \cup { <<Pair(ks[1], v1), Pair(ks[2], v2)>> :
             ks \in { q \in Keys \X Keys : q[1] # q[2] },
             v1 \in PlainValues, v2 \in PlainValues }

\* The defaults a template is constructed with.
Defaults ==
  { << >>, <<Pair(<<"a">>, <<"y">>)>>, <<Pair(<<"b">>, <<"y">>)>>,
    <<Pair(<<"a">>, <<"y">>), Pair(<<"b">>, <<"y">>)>>,
    <<Pair(<<"constructor">>, <<"y">>)>> }

\* Template texts longer than MaxTextLen: the shapes of the documented
\* examples ("{salute} {name}!"), a repeated placeholder, nested braces and
\* a placeholder named like a member of Object.prototype.
LongTexts ==
  { <<"{", "a", "}", " ", "{", "b", "}">>,
    <<"{", "a", "}", "{", "a", "}">>,
    <<" ", "{", "b", "}", " ", "{", "a", "}", "b", " ">>,
    <<"{", "a", " ", "{", "b", "}", "}">>,
    <<"{", "constructor", "}", " ", "{", "a", "}">> }

Texts == Strings(MaxTextLen) \cup LongTexts

\* Template.render(replacements)
render ==
  /\ rendered.kind = "none"
  /\ \E replacements \in Supplied :
       LET result == RenderText(template, replacements, TRUE)
       IN  rendered' =
             [replacements |-> replacements,
              result |-> IF ValidateThrows(result) THEN << >> ELSE result,
              kind |-> "render",
              threw |-> ValidateThrows(result),
              cause |-> IF ValidateThrows(result)
                          THEN ValidateCause(template, result) ELSE NoCause,
              created |-> NoTemplate]
  /\ UNCHANGED template
  /\ UNCHANGED <<loggerVars, cliVars, flagVars, gitVars, envVars, urlVars, versionVars, tryVars, callsitesVars, subLoggerVars, stagedVars, initDenoVars>>

\* Template.partialRender(replacements)
partialRender ==
  /\ rendered.kind = "none"
  /\ \E replacements \in Supplied :
       LET nt == RenderText(template, replacements, FALSE)
           defaults == filterKeys(template.replacements, replacements)
       IN  rendered' =
             [replacements |-> replacements, result |-> << >>,
              kind |-> "partialRender", threw |-> FALSE, cause |-> NoCause,
              created |-> NewTemplate(nt, defaults)]
  /\ UNCHANGED template
  /\ UNCHANGED <<loggerVars, cliVars, flagVars, gitVars, envVars, urlVars, versionVars, tryVars, callsitesVars, subLoggerVars, stagedVars, initDenoVars>>

NotRendered ==
  [replacements |-> << >>, result |-> << >>, kind |-> "none", threw |-> FALSE,
   cause |-> NoCause, created |-> NoTemplate]

(***************************************************************************)
(* Command descriptors and stringifyFlag                                   *)
(***************************************************************************)
\* KeyOf<TypeMap>
FlagTypes == {"string", "number", "boolean", "file", "integer", "version"}

\* JavaScript truthiness of an optional string.
Truthy(x) == x # Undefined /\ x # ""

\* A slip: the value is declared for every type.
stringifyFlagAlwaysValue(f) ==
  IF Truthy(f.abbreviation)
    THEN "-" \o f.abbreviation \o ", --" \o f.name \o " <" \o f.name \o ":" \o f.type \o ">"
  ELSE "--" \o f.name \o " <" \o f.name \o ":" \o f.type \o ">"

\* stringifyFlag(flag)
stringifyFlag(f) ==
  IF f.type = "boolean" /\ Truthy(f.abbreviation)
    THEN "-" \o f.abbreviation \o ", --" \o f.name
  ELSE IF f.type = "boolean"
    THEN "--" \o f.name
  ELSE IF Truthy(f.abbreviation)
    THEN "-" \o f.abbreviation \o ", --" \o f.name \o " <" \o f.name \o ":" \o f.type \o ">"
  ELSE "--" \o f.name \o " <" \o f.name \o ":" \o f.type \o ">"

Flag(name, abbreviation, type) ==
  [name |-> name, abbreviation |-> abbreviation, type |-> type,
   description |-> "about " \o name]

FlagInputs ==
  { Flag(n, a, t) : n \in {"force", "out", "level"},
                    a \in {Undefined, "", "f"}, t \in FlagTypes }

NoFlag == Flag("", Undefined, "string")

(***************************************************************************)
(* Exported values of the modules of the scripts directory.                *)
(***************************************************************************)
NoArguments == [given |-> FALSE, items |-> << >>, isArray |-> FALSE]

ArgumentList(items) == [given |-> TRUE, items |-> items, isArray |-> TRUE]

\* A value that is no object with fields: kind is its JavaScript type.
Plain(kind) ==
  [name |-> Undefined, kind |-> kind, description |-> Undefined,
   hasName |-> kind = "function", hasDescription |-> FALSE, flags |-> << >>,
   arguments |-> NoArguments, action |-> Undefined]

Object(hasName, hasDescription) ==
  [name |-> IF hasName THEN "meta" ELSE Undefined,
   kind |-> "object",
   description |-> IF hasDescription THEN "about meta" ELSE Undefined,
   hasName |-> hasName,
   hasDescription |-> hasDescription,
   flags |-> << >>, arguments |-> NoArguments, action |-> Undefined]

Descriptor(name, flags, arguments, action) ==
  [name |-> name, kind |-> "object", description |-> "about " \o name,
   hasName |-> TRUE, hasDescription |-> TRUE, flags |-> flags,
   arguments |-> arguments, action |-> action]

DescBuild ==
  Descriptor("build", <<Flag("force", "f", "boolean"), Flag("out", Undefined, "file")>>,
             NoArguments, "buildAction")

DescDeploy ==
  Descriptor("deploy", << >>,
             ArgumentList(<<[name |-> "env", type |-> "string"],
                            [name |-> "count", type |-> "integer"]>>),
             "deployAction")

\* A second descriptor named "build".
DescBuildAgain == Descriptor("build", << >>, NoArguments, "otherBuildAction")

\* bin/init-deno.ts
DescInitDeno ==
  Descriptor("init-deno", << >>,
             ArgumentList(<<[name |-> "path", type |-> "string"]>>),
             "initDenoAction")

\* An object with `name` and `description` whose `arguments` is no array:
\* for example a cliffy Command, which has the three as methods.
CommandInstance ==
  [name |-> "name()", kind |-> "object", description |-> "description()",
   hasName |-> TRUE, hasDescription |-> TRUE, flags |-> << >>,
   arguments |-> [given |-> TRUE, items |-> << >>, isArray |-> FALSE],
   action |-> "action()"]

Module(exports) == [exports |-> exports, ok |-> TRUE]

\* A module whose import() rejects.
BrokenModule == [exports |-> << >>, ok |-> FALSE]

FileModules ==
  { Module(<<DescBuild>>),
    Module(<<Plain("null"), DescDeploy, Plain("function"), Object(TRUE, FALSE),
             Plain("number")>>),
    Module(<<DescBuildAgain>>),
    Module(<<CommandInstance>>),
    Module(<<Plain("string"), Object(FALSE, TRUE), Object(FALSE, FALSE),
             Plain("undefined"), Plain("boolean")>>),
    BrokenModule }

RemoteModules == { Module(<<DescInitDeno>>), BrokenModule }

Directories ==
  { [ok |-> FALSE, files |-> << >>] }
    \cup { [ok |-> TRUE, files |-> fs] :
             fs \in UNION { [1..n -> FileModules] : n \in 0..MaxFiles } }

Entries == {"unnamed/part_000", "bin/run.ts"}

(***************************************************************************)
(* The command runner: discovery, adaptation, registration.                *)
(***************************************************************************)
\* typeof value
TypeOf(value) == IF value.kind = "null" THEN "object" ELSE value.kind

isCommandOptions(value) ==
  IF TypeOf(value) # "object" \/ value.kind = "null" THEN FALSE
  ELSE IF ~value.hasName \/ ~value.hasDescription THEN FALSE
  ELSE TRUE

\* command.arguments(...) sets the arguments declaration of the command;
\* toCliffy calls it once per declared argument.
RECURSIVE DeclareArguments(_, _)
DeclareArguments(argsDefinition, items) ==
  IF items = << >> THEN argsDefinition
  ELSE DeclareArguments("<" \o Head(items).name \o ":" \o Head(items).type \o ">",
                        Tail(items))

\* Whether toCliffy(options) raises: forEach of something that is no array.
toCliffyThrows(options) ==
  options.arguments.given /\ ~options.arguments.isArray

toCliffy(options) ==
  [name |-> options.name,
   options |-> [i \in 1..Len(options.flags) |->
                  [description |-> options.flags[i].description,
                   flags |-> stringifyFlag(options.flags[i])]],
   description |-> options.description,
   action |-> options.action,
   argsDefinition |-> IF options.arguments.given
                        THEN DeclareArguments(Undefined, options.arguments.items)
                        ELSE Undefined]

\* A slip: the fallback is not used.
tryCatchIgnoringFallback(fnThrows, fnValue, fallback) == fnValue

\* tryCatch(fn, fallback)
tryCatch(fnThrows, fnValue, fallback) == IF fnThrows THEN fallback ELSE fnValue

\* The file URLs getLocalPaths returns: one per file, in walk order.
LocalPathsOf(dir) == [i \in 1..Len(dir.files) |-> [where |-> "local", file |-> i]]

\* defaultPaths
DefaultPaths == << [where |-> "remote", file |-> 1] >>

ModuleAt(path) == IF path.where = "local" THEN binDir.files[path.file] ELSE remote

RECURSIVE Flat(_)
Flat(lists) == IF lists = << >> THEN << >> ELSE Head(lists) \o Flat(Tail(lists))

RECURSIVE Filter(_)
Filter(values) ==
  IF values = << >> THEN << >>
  ELSE IF isCommandOptions(Head(values))
    THEN <<Head(values)>> \o Filter(Tail(values))
  ELSE Filter(Tail(values))

Abort(cause) ==
  /\ pc' = "aborted"
  /\ abortCause' = cause

\* const localPaths = ...; the imports are started for all paths at once.
ListPaths ==
  /\ pc = "start"
  /\ IF entry = "unnamed/part_000"
       THEN LET lp == tryCatch(~binDir.ok, LocalPathsOf(binDir), << >>)
            IN  /\ localPaths' = lp
                /\ paths' = lp \o DefaultPaths
                /\ pending' = 1..Len(lp \o DefaultPaths)
                /\ pc' = "importing"
                /\ UNCHANGED abortCause
       ELSE IF binDir.ok
              THEN /\ localPaths' = LocalPathsOf(binDir)
                   /\ paths' = LocalPathsOf(binDir)
                   /\ pending' = 1..Len(LocalPathsOf(binDir))
                   /\ pc' = "importing"
                   /\ UNCHANGED abortCause
              ELSE /\ Abort("listing")
                   /\ UNCHANGED <<localPaths, paths, pending>>
  /\ UNCHANGED <<settled, entry, isMain, binDir, remote, imported, subcommands, registered,
                 parsed>>
  /\ UNCHANGED <<loggerVars, templateVars, flagVars, gitVars, envVars, urlVars, versionVars, tryVars, callsitesVars, subLoggerVars, stagedVars, initDenoVars>>

\* getAllModuleImports(path) resolves with Object.values(mod).
ImportResolves ==
  /\ pc = "importing"
  /\ \E i \in pending :
       /\ ModuleAt(paths[i]).ok
       /\ imported' = [imported EXCEPT ![i] = ModuleAt(paths[i]).exports]
       /\ pending' = pending \ {i}
       /\ settled' = Append(settled, i)
  /\ UNCHANGED <<entry, isMain, binDir, remote, pc, abortCause, localPaths, paths,
                 subcommands, registered, parsed>>
  /\ UNCHANGED <<loggerVars, templateVars, flagVars, gitVars, envVars, urlVars, versionVars, tryVars, callsitesVars, subLoggerVars, stagedVars, initDenoVars>>

\* A slip: a rejected import is caught and counts as a module without exports.
ImportRejectsCaught ==
  /\ pc = "importing"
  /\ \E i \in pending :
       /\ ~ModuleAt(paths[i]).ok
       /\ imported' = [imported EXCEPT ![i] = << >>]
       /\ pending' = pending \ {i}
       /\ settled' = Append(settled, i)
  /\ UNCHANGED <<entry, isMain, binDir, remote, pc, abortCause, localPaths, paths,
                 subcommands, registered, parsed>>
  /\ UNCHANGED <<loggerVars, templateVars, flagVars, gitVars, envVars, urlVars, versionVars, tryVars, callsitesVars, subLoggerVars, stagedVars, initDenoVars>>

\* import(path) rejects: Promise.all rejects and the awaiting module throws.
ImportRejects ==
  /\ pc = "importing"
  /\ \E i \in pending : ~ModuleAt(paths[i]).ok
  /\ Abort("import")
  /\ UNCHANGED <<settled, entry, isMain, binDir, remote, localPaths, paths, pending, imported,
                 subcommands, registered, parsed>>
  /\ UNCHANGED <<loggerVars, templateVars, flagVars, gitVars, envVars, urlVars, versionVars, tryVars, callsitesVars, subLoggerVars, stagedVars, initDenoVars>>

\* A slip: the results are collected in the order the imports completed.
PromiseAllAsSettled == [k \in 1..Len(settled) |-> imported[settled[k]]]

\* await Promise.all(...): the results in the order of the paths.
PromiseAll == [i \in 1..Len(paths) |-> imported[i]]

\* .flat().filter(isCommandOptions).map(toCliffy)
Adapt ==
  /\ pc = "importing"
  /\ pending = {}
  /\ LET kept == Filter(Flat(PromiseAll))
     IN  IF \E i \in 1..Len(kept) : toCliffyThrows(kept[i])
           THEN /\ Abort("adapt")
                /\ UNCHANGED subcommands
           ELSE /\ subcommands' = [i \in 1..Len(kept) |-> toCliffy(kept[i])]
                /\ pc' = "adapted"
                /\ UNCHANGED abortCause
  /\ UNCHANGED <<settled, entry, isMain, binDir, remote, localPaths, paths, pending, imported,
                 registered, parsed>>
  /\ UNCHANGED <<loggerVars, templateVars, flagVars, gitVars, envVars, urlVars, versionVars, tryVars, callsitesVars, subLoggerVars, stagedVars, initDenoVars>>

\* The commands registered before the first one whose name is taken already;
\* Command.command raises for a name that is registered.
RECURSIVE RegisterFrom(_, _)
RegisterFrom(done, rest) ==
  IF rest = << >> THEN [threw |-> FALSE, commands |-> done]
  ELSE IF \E i \in 1..Len(done) : done[i].name = Head(rest).name
    THEN [threw |-> TRUE, commands |-> done]
  ELSE RegisterFrom(Append(done, [name |-> Head(rest).name, command |-> Head(rest)]),
                    Tail(rest))

\* A slip: the first subcommand is skipped.
registerSubcommandsSkipFirst(commands, subs) ==
  IF subs = << >> THEN RegisterFrom(commands, subs)
  ELSE RegisterFrom(commands, Tail(subs))

\* registerSubcommands(command, subcommands)
registerSubcommands(commands, subs) == RegisterFrom(commands, subs)

Register ==
  /\ pc = "adapted"
  /\ LET r == registerSubcommands(registered, subcommands)
     IN  /\ registered' = r.commands
         /\ IF r.threw
              THEN Abort("register")
              ELSE pc' = "registered" /\ UNCHANGED abortCause
  /\ UNCHANGED <<settled, entry, isMain, binDir, remote, localPaths, paths, pending, imported,
                 subcommands, parsed>>
  /\ UNCHANGED <<loggerVars, templateVars, flagVars, gitVars, envVars, urlVars, versionVars, tryVars, callsitesVars, subLoggerVars, stagedVars, initDenoVars>>

\* if (import.meta.main) run.parse(Deno.args)
Parse ==
  /\ pc = "registered"
  /\ parsed' = isMain
  /\ pc' = "done"
  /\ UNCHANGED <<settled, entry, isMain, binDir, remote, abortCause, localPaths, paths,
                 pending, imported, subcommands, registered>>
  /\ UNCHANGED <<loggerVars, templateVars, flagVars, gitVars, envVars, urlVars, versionVars, tryVars, callsitesVars, subLoggerVars, stagedVars, initDenoVars>>

\* stringifyFlag applied to the flag.
Stringify ==
  /\ declaration = Undefined
  /\ declaration' = stringifyFlag(flag)
  /\ UNCHANGED flag
  /\ UNCHANGED <<loggerVars, templateVars, cliVars, gitVars, envVars, urlVars, versionVars, tryVars, callsitesVars, subLoggerVars, stagedVars, initDenoVars>>

(***************************************************************************)
(* The Git wrapper: flags                                                  *)
(***************************************************************************)
UpperCase ==
  <<"A", "B", "C", "D", "E", "F", "G", "H", "I", "J", "K", "L", "M", "N", "O", "P",
    "Q", "R", "S", "T", "U", "V", "W", "X", "Y", "Z">>

LowerCase ==
  <<"a", "b", "c", "d", "e", "f", "g", "h", "i", "j", "k", "l", "m", "n", "o", "p",
    "q", "r", "s", "t", "u", "v", "w", "x", "y", "z">>

IsUpper(c) == \E i \in 1..Len(UpperCase) : UpperCase[i] = c

IsLower(c) == \E i \in 1..Len(LowerCase) : LowerCase[i] = c

\* String.prototype.toLowerCase, one character and a whole string.
LowerChar(c) ==
  IF IsUpper(c) THEN LowerCase[CHOOSE i \in 1..Len(UpperCase) : UpperCase[i] = c]
  ELSE c

toLowerCase(s) == [i \in 1..Len(s) |-> LowerChar(s[i])]

\* The string of a sequence of characters.
RECURSIVE Text(_)
Text(s) == IF s = << >> THEN "" ELSE Head(s) \o Text(Tail(s))

\* The end of the match of /[A-Z][a-z]+/ that starts at position i, or 0.
WordEnd(s, i) ==
  IF i < Len(s) /\ IsUpper(s[i]) /\ IsLower(s[i + 1])
    THEN CHOOSE j \in (i + 1)..Len(s) :
           /\ \A k \in (i + 1)..j : IsLower(s[k])
           /\ (j = Len(s) \/ ~IsLower(s[j + 1]))
    ELSE 0

\* The start of the first match of /[A-Z][a-z]+/ in s, or 0.
WordStart(s) ==
  IF \E i \in 1..Len(s) : WordEnd(s, i) # 0
    THEN CHOOSE i \in 1..Len(s) :
           /\ WordEnd(s, i) # 0
           /\ \A k \in 1..(i - 1) : WordEnd(s, k) = 0
    ELSE 0

\* name.split(/([A-Z][a-z]+)/): the pieces between the matches and, because
\* of the group, the matches themselves.
RECURSIVE SplitWords(_)
SplitWords(s) ==
  IF WordStart(s) = 0 THEN <<s>>
  ELSE <<SubSeq(s, 1, WordStart(s) - 1), SubSeq(s, WordStart(s), WordEnd(s, WordStart(s)))>>
         \o SplitWords(From(s, WordEnd(s, WordStart(s)) + 1))

\* pieces.join("-")
RECURSIVE JoinWords(_)
JoinWords(pieces) ==
  IF pieces = << >> THEN ""
  ELSE IF Tail(pieces) = << >> THEN Text(Head(pieces))
  ELSE Text(Head(pieces)) \o "-" \o JoinWords(Tail(pieces))

NonEmpty(piece) == piece # << >>

\* The flag name parseFlag builds.
FlagName(name) ==
  "--" \o JoinWords(SelectSeq([i \in 1..Len(SplitWords(name)) |->
                                 toLowerCase(SplitWords(name)[i])], NonEmpty))

\* Git.parseFlag(name, value, takesValue)
parseFlag(name, value, takesValue) ==
  IF value = Undefined \/ value = "" THEN <<FlagName(name)>>
  ELSE IF ~takesValue THEN <<FlagName(name), value>>
  ELSE <<FlagName(name) \o "=" \o value>>

\* Git.parseFlags(flags, takesValue); a flag value is kept with its type.
RECURSIVE parseFlags(_, _)
parseFlags(flags, takesValue) ==
  IF flags = << >> THEN << >>
  ELSE parseFlag(Head(flags).key,
                 IF Head(flags).value.type = "string" THEN Head(flags).value.value
                 ELSE Undefined,
                 takesValue)
         \o parseFlags(Tail(flags), takesValue)

StringValue(v) == [value |-> v, type |-> "string"]

TrueValue == [value |-> "true", type |-> "boolean"]

Letters(word) ==
  CASE word = "date" -> <<"d", "a", "t", "e">>
    [] word = "quiet" -> <<"q", "u", "i", "e", "t">>
    [] word = "initialBranch" ->
         <<"i", "n", "i", "t", "i", "a", "l", "B", "r", "a", "n", "c", "h">>
    [] word = "maxCount" -> <<"m", "a", "x", "C", "o", "u", "n", "t">>
    [] word = "noUseMailMap" ->
         <<"n", "o", "U", "s", "e", "M", "a", "i", "l", "M", "a", "p">>
    [] word = "tags" -> <<"t", "a", "g", "s">>

\* Git.CommitFlags
CommitFlags ==
  { << >>, <<Pair(Letters("date"), StringValue("2020-01-01"))>>,
    <<Pair(Letters("date"), StringValue(""))>> }

\* Git.InitFlags
InitFlags ==
  { << >>, <<Pair(Letters("quiet"), TrueValue)>>,
    <<Pair(Letters("initialBranch"), StringValue("main"))>>,
    <<Pair(Letters("initialBranch"), StringValue("main")), Pair(Letters("quiet"), TrueValue)>>,
    <<Pair(Letters("quiet"), TrueValue), Pair(Letters("initialBranch"), StringValue(""))>> }

\* Git.LogFlags
LogFlags ==
  { << >>, <<Pair(Letters("maxCount"), StringValue("5"))>>,
    <<Pair(Letters("noUseMailMap"), TrueValue), Pair(Letters("date"), StringValue("iso"))>>,
    <<Pair(Letters("tags"), TrueValue)>>, <<Pair(Letters("tags"), StringValue(""))>> }

(***************************************************************************)
(* The Git wrapper: construction and the operations                        *)
(***************************************************************************)
\* const parameters = new Template("...options, ...{defaults}")
parameters ==
  NewTemplate(<<"...options, ...", "{", "defaults", "}">>, << >>)

\* The default options that have a value: JSON leaves out the others.
Defined(options) == SelectSeq(options, LAMBDA o : o.value # Undefined)

RECURSIVE Members(_)
Members(options) ==
  IF options = << >> THEN << >>
  ELSE IF Tail(options) = << >>
    THEN <<"\"" \o Head(options).key \o "\":\"" \o Head(options).value \o "\"">>
  ELSE <<"\"" \o Head(options).key \o "\":\"" \o Head(options).value \o "\"", ",">>
         \o Members(Tail(options))

\* JSON.stringify(options)
JSONStringify(options) == <<"{">> \o Members(Defined(options)) \o <<"}">>

\* parameters.render({defaults: JSON.stringify(options)}), before #validate
Params(options) ==
  RenderText(parameters, <<Pair(<<"defaults">>, JSONStringify(options))>>, TRUE)

GitDefaultOptions ==
  { << >>, <<Pair("cwd", "/repo")>>, <<Pair("cwd", Undefined)>>,
    <<Pair("cwd", "/repo"), Pair("stdin", "null")>> }

NothingReturned == [text |-> "", kind |-> "none", commits |-> << >>]

\* An operation and what it was called with.
GitCall(op, list, text, value, flags, range) ==
  [value |-> value, text |-> text, flags |-> flags, op |-> op, list |-> list,
   range |-> range]

NoGitCall == GitCall("none", << >>, "", Undefined, << >>, << >>)

\* new Git(options)
NewGit ==
  /\ gitPc = "new"
  /\ IF ValidateThrows(Params(gitOptions))
       THEN /\ gitPc' = "threw"
            /\ UNCHANGED gitBody
       ELSE /\ gitPc' = "ready"
            /\ gitBody' = <<"return executeCommand('git', { ">> \o Params(gitOptions)
                            \o <<" });">>
  /\ UNCHANGED <<gitOptions, invoked, gitReturned, history, gitCall>>
  /\ UNCHANGED <<loggerVars, templateVars, cliVars, flagVars, envVars, urlVars, versionVars, tryVars, callsitesVars, subLoggerVars, stagedVars, initDenoVars>>

\* What the subprocess may write to its standard output.
Stdouts == {"", "done"}

\* The call the function body makes: executeCommand('git', {...options, ...defaults})
\* with options = {args}.
Invocation(args) ==
  [args |-> args, options |-> Defined(gitOptions), command |-> "git"]

\* this({args}): one subprocess; its captured standard output is returned.
Execute(call, args) ==
  /\ gitPc = "ready"
  /\ Len(invoked) < MaxGitCalls
  /\ gitCall' = call
  /\ invoked' = Append(invoked, Invocation(args))
  /\ \E out \in Stdouts : gitReturned' = [text |-> out, kind |-> "text", commits |-> << >>]
  /\ UNCHANGED <<gitOptions, gitPc, gitBody, history>>
  /\ UNCHANGED <<loggerVars, templateVars, cliVars, flagVars, envVars, urlVars, versionVars, tryVars, callsitesVars, subLoggerVars, stagedVars, initDenoVars>>

\* [...].filter(Boolean) of strings
Truthies(list) == SelectSeq(list, Truthy)

Paths == { << >>, <<"a.txt">>, <<"a.txt", "b.txt">> }

\* Git.add(...paths)
add ==
  \E files \in Paths :
    Execute(GitCall("add", files, "", Undefined, << >>, << >>), <<"add">> \o files)

CommitMessages == {"msg", ""}

\* Git.commit(message, flags)
commit ==
  \E message \in CommitMessages, flags \in CommitFlags :
    Execute(GitCall("commit", << >>, message, Undefined, flags, << >>),
            <<"commit", "-m", message>> \o Truthies(parseFlags(flags, TRUE)))

ConfigValues == {Undefined, "", "Jo"}

\* Git.config(name, value)
config ==
  \E value \in ConfigValues :
    Execute(GitCall("config", << >>, "user.name", value, << >>, << >>),
            Truthies(<<"config", "user.name", value>>))

\* Git.init(flags)
init ==
  \E flags \in InitFlags :
    Execute(GitCall("init", << >>, "", Undefined, flags, << >>),
            <<"init">> \o parseFlags(flags, FALSE))

(***************************************************************************)
(* The Git wrapper: log and the parsing of its output.  A text is a        *)
(* sequence of pieces; the delimiter {"hash" and the double quote are      *)
(* pieces of their own wherever they occur.                                *)
(***************************************************************************)
Delimiter == "{\"hash\""

Quote == "\""

\* The emoji character U+2728 and its code.
Sparkles == "U+2728"

NaN == 0 - 1

InvalidDate == 0 - 1

\* Number(date) for the timestamps of the histories: the empty string is 0,
\* a decimal numeral is its value, any other text is NaN.
Number(date) ==
  CASE date = "" -> 0
    [] date = "86400" -> 86400
    [] date = "1970" -> 1970
    [] OTHER -> NaN

\* new Date(date).getTime() for a string: the milliseconds, or InvalidDate.
DateOfString(date) ==
  CASE date = "1970-01-02T00:00:00Z" -> 86400000
    [] date = "Fri Jan 2 00:00:00 1970 +0000" -> 86400000
    [] OTHER -> InvalidDate

\* parseDate(date)
parseDate(date) ==
  IF Number(date) # NaN THEN Number(date) * 1000 ELSE DateOfString(date)

\* emojiCharToCode(subject): every emoji character becomes its code.
emojiCharToCode(subject) ==
  [i \in 1..Len(subject) |-> IF subject[i] = Sparkles THEN ":sparkles:" ELSE subject[i]]

\* A commit of the repository, as git knows it.
Commit(hash, timestamp, subject, ref) ==
  [id |-> hash, subject |-> subject, hash |-> hash,
   timestamp |-> timestamp, ref |-> ref,
   author |-> [name |-> "Ann", email |-> "ann@x.org"]]

PlainCommits ==
  { Commit("a1", "86400", <<"fix", " ", "bug">>, "HEAD -> main"),
    Commit("b2", "1970-01-02T00:00:00Z", <<Sparkles, " ", "new">>, ""),
    Commit("c3", "Fri Jan 2 00:00:00 1970 +0000", <<"docs">>, "tag: v1") }

OddDateCommits ==
  { Commit("d4", "2 days ago", <<"fix">>, ""),
    Commit("e5", "", <<"fix">>, ""),
    Commit("f6", "1970", <<"fix">>, "") }

OddSubjectCommits ==
  { Commit("a7", "86400", <<"say", " ", Quote, "hi", Quote>>, ""),
    Commit("b8", "86400", <<"add", " ", Delimiter>>, "") }

Commits == PlainCommits \cup OddDateCommits \cup OddSubjectCommits

Histories ==
  { << >> } \cup { <<c>> : c \in Commits }
    \cup { <<c, d>> : c \in PlainCommits, d \in Commits }

\* JSON.stringify(commitFormat) with the placeholders of one commit filled in
\* by git.
Printed(c) ==
  <<Delimiter, ":", Quote, c.hash, Quote, ",\"id\":", Quote, c.id, Quote,
    ",\"timestamp\":", Quote, c.timestamp, Quote,
    ",\"author\":{\"name\":", Quote, c.author.name, Quote,
    ",\"email\":", Quote, c.author.email, Quote, "},\"subject\":", Quote>>
    \o c.subject \o <<Quote, ",\"ref\":", Quote, c.ref, Quote, "}">>

\* The output of git log: the commits, one per line.
RECURSIVE LogOutput(_)
LogOutput(commits) ==
  IF commits = << >> THEN << >>
  ELSE IF Tail(commits) = << >> THEN Printed(Head(commits))
  ELSE Printed(Head(commits)) \o <<"\n">> \o LogOutput(Tail(commits))

\* output.split(`{"hash"`): the texts between the delimiters.
RECURSIVE SplitAtDelimiter(_, _)
SplitAtDelimiter(output, piece) ==
  IF output = << >> THEN <<piece>>
  ELSE IF Head(output) = Delimiter
    THEN <<piece>> \o SplitAtDelimiter(Tail(output), << >>)
  ELSE SplitAtDelimiter(Tail(output), Append(piece, Head(output)))

\* .filter(Boolean).map((v) => `{"hash"${v}`)
rawCommits(output) ==
  LET kept == SelectSeq(SplitAtDelimiter(output, << >>), NonEmpty)
  IN  [i \in 1..Len(kept) |-> <<Delimiter>> \o kept[i]]

\* The position of the quote that closes the string opened just before
\* position i of the text: the first quote from i on, or 0.
ClosingQuote(t, i) ==
  IF \E j \in i..Len(t) : t[j] = Quote
    THEN CHOOSE j \in i..Len(t) : t[j] = Quote /\ \A k \in i..(j - 1) : t[k] # Quote
    ELSE 0

\* JSON.parse(c) of a fragment: the object, if the text is one JSON object
\* with these members (white space may follow it), else a SyntaxError.
\* The strings of the first six members are one piece each.
JSONParse(t) ==
  LET s == 24
      e == ClosingQuote(t, s)
      wellFormed ==
        /\ Len(t) >= s + 5
        /\ <<t[1], t[2], t[3], t[5], t[6], t[7], t[9], t[10], t[11], t[13], t[14],
             t[15], t[17], t[18], t[19], t[21], t[22], t[23]>>
             = <<Delimiter, ":", Quote, Quote, ",\"id\":", Quote, Quote,
                 ",\"timestamp\":", Quote, Quote, ",\"author\":{\"name\":", Quote,
                 Quote, ",\"email\":", Quote, Quote, "},\"subject\":", Quote>>
        /\ \A k \in {4, 8, 12, 16, 20} : t[k] # Quote /\ t[k] # Delimiter
        /\ e # 0
        /\ Len(t) >= e + 5
        /\ SubSeq(t, e + 1, e + 2) = <<",\"ref\":", Quote>>
        /\ t[e + 3] # Quote
        /\ SubSeq(t, e + 4, e + 5) = <<Quote, "}">>
        /\ \A k \in (e + 6)..Len(t) : t[k] = "\n"
  IN  IF wellFormed
        THEN [value |-> [id |-> t[8], subject |-> SubSeq(t, s, e - 1), hash |-> t[4],
                         timestamp |-> t[12],
                         ref |-> t[e + 3], author |-> [name |-> t[16], email |-> t[20]]],
              ok |-> TRUE]
        ELSE [value |-> Commit("", "", << >>, ""), ok |-> FALSE]

\* CommitSchema.parse(value): the strings trimmed, the timestamp a date, the
\* subject with its emoji as codes; it throws for a date that is invalid.
CommitSchemaThrows(value) == parseDate(value.timestamp) = InvalidDate

CommitSchemaParse(value) ==
  [id |-> value.id, subject |-> emojiCharToCode(trim(value.subject)), hash |-> value.hash,
   timestamp |-> parseDate(value.timestamp), ref |-> value.ref,
   author |-> value.author]

\* Git.#parseLogOutput(output)
parseLogOutput(output) ==
  LET raw == rawCommits(output)
      objects == [i \in 1..Len(raw) |-> JSONParse(raw[i])]
  IN  IF \E i \in 1..Len(raw) : ~objects[i].ok \/ CommitSchemaThrows(objects[i].value)
        THEN [text |-> "", kind |-> "threw", commits |-> << >>]
        ELSE [text |-> "", kind |-> "commits",
              commits |-> [i \in 1..Len(raw) |-> CommitSchemaParse(objects[i].value)]]

\* `--pretty=format:${JSON.stringify(commitFormat)}`
PrettyFormat ==
  "--pretty=format:{\"hash\":\"%H\",\"id\":\"%h\",\"timestamp\":\"%ad\","
    \o "\"author\":{\"name\":\"%an\",\"email\":\"%ae\"},\"subject\":\"%s\",\"ref\":\"%D\"}"

\* revisionRange.split(" "): a range is kept as its parts and the spaces
\* between them.
RECURSIVE SplitAtSpace(_, _)
SplitAtSpace(range, part) ==
  IF range = << >> THEN <<part>>
  ELSE IF Head(range) = " " THEN <<part>> \o SplitAtSpace(Tail(range), "")
  ELSE SplitAtSpace(Tail(range), part \o Head(range))

\* Git.LogRevisionRange, or none
RevisionRanges ==
  { << >>, <<"main...dev">>, <<"main", " ", "^dev">>, <<"main", " ", " ", "dev">> }

\* Git.log(flags, revisionRange)
gitLog ==
  /\ gitPc = "ready"
  /\ Len(invoked) < MaxGitCalls
  /\ \E flags \in LogFlags, range \in RevisionRanges :
       LET ranges == IF range # << >> THEN Truthies(SplitAtSpace(range, "")) ELSE << >>
           args == (parseFlags(flags, TRUE) \o ranges) \o <<PrettyFormat>>
       IN  /\ gitCall' = GitCall("log", << >>, "", Undefined, flags, range)
           /\ invoked' = Append(invoked, Invocation(<<"log">> \o args))
  /\ gitReturned' = parseLogOutput(LogOutput(history))
  /\ UNCHANGED <<gitOptions, gitPc, gitBody, history>>
  /\ UNCHANGED <<loggerVars, templateVars, cliVars, flagVars, envVars, urlVars, versionVars, tryVars, callsitesVars, subLoggerVars, stagedVars, initDenoVars>>

(***************************************************************************)
(* The environment reader and getSetup                                     *)
(***************************************************************************)
\* A zod schema: a string of a minimal length or one of the given values,
\* with or without .default(...) and .catch(...).
Schema(type, values, minLength, default, catch) ==
  [type |-> type, values |-> values, minLength |-> minLength,
   default |-> default, catch |-> catch]

\* The inner schema accepts the value.
Accepts(schema, value) ==
  /\ value # Undefined
  /\ IF schema.type = "string" THEN Len(value) >= schema.minLength
     ELSE value \in schema.values

\* schema.parse(value): .default replaces undefined, .catch replaces a
\* value that fails; without .catch the ZodError is raised.
parse(schema, value) ==
  LET input == IF value = Undefined /\ schema.default # Undefined
                THEN schema.default ELSE value
  IN  IF Accepts(schema, input) THEN [value |-> input, threw |-> FALSE]
      ELSE IF schema.catch # Undefined THEN [value |-> schema.catch, threw |-> FALSE]
      ELSE [value |-> Undefined, threw |-> TRUE]

\* getFromEnvironment(name, schema)
getFromEnvironment(name, schema) == parse(schema, environ[name])

\* A slip: the scripts directory without .catch.
BinDirSchemaWithoutCatch == Schema("string", {}, 1, "./bin", Undefined)

\* z.string().min(1).default("./bin").catch("./bin")
BinDirSchema == Schema("string", {}, 1, "./bin", "./bin")

\* SeverityNameSchema.default(Informational).catch(Informational)
LogSeveritySchema == Schema("enum", SeverityName, 0, "INFORMATIONAL", "INFORMATIONAL")

\* Schemas a caller of getFromEnvironment may pass: without .catch, and
\* with it.
CallerSchemas ==
  { Schema("string", {}, 1, Undefined, Undefined),
    Schema("string", {}, 1, "./bin", Undefined),
    Schema("enum", SeverityName, 0, Undefined, Undefined),
    Schema("enum", SeverityName, 0, Undefined, "ERROR") }

EnvironmentNames == {"TOOLKIT_BIN_DIR", "TOOLKIT_LOGGER_LEVEL"}

\* Deno.env: a variable is unset or has a string as its value.
Environments ==
  { [n \in EnvironmentNames |-> IF n = "TOOLKIT_BIN_DIR" THEN dir ELSE level] :
      dir \in {Undefined, "", " ", "./scripts"},
      level \in SeverityName \cup {Undefined, "", "debug", "VERBOSE"} }

EmptyEnvironment == [n \in EnvironmentNames |-> Undefined]

NoSetup == [threw |-> FALSE, done |-> FALSE, BIN_DIR |-> Undefined, LOG_SEVERITY |-> Undefined]

NothingRead ==
  [name |-> Undefined, value |-> Undefined,
   threw |-> FALSE, schema |-> Schema("none", {}, 0, Undefined, Undefined)]

\* const { env, logger } = getSetup()
getSetup ==
  /\ ~setup.done
  /\ LET dir == getFromEnvironment("TOOLKIT_BIN_DIR", BinDirSchema)
         level == getFromEnvironment("TOOLKIT_LOGGER_LEVEL", LogSeveritySchema)
     IN  setup' = [threw |-> dir.threw \/ level.threw, done |-> TRUE,
                   BIN_DIR |-> dir.value, LOG_SEVERITY |-> level.value]
  /\ UNCHANGED <<environ, envRead>>
  /\ UNCHANGED <<loggerVars, templateVars, cliVars, flagVars, gitVars, urlVars, versionVars, tryVars, callsitesVars, subLoggerVars, stagedVars, initDenoVars>>

\* A call of getFromEnvironment by other code.
ReadEnvironment ==
  /\ envRead.name = Undefined
  /\ \E name \in EnvironmentNames, schema \in CallerSchemas :
       envRead' = [name |-> name, value |-> getFromEnvironment(name, schema).value,
                   threw |-> getFromEnvironment(name, schema).threw,
                   schema |-> schema]
  /\ UNCHANGED <<environ, setup>>
  /\ UNCHANGED <<loggerVars, templateVars, cliVars, flagVars, gitVars, urlVars, versionVars, tryVars, callsitesVars, subLoggerVars, stagedVars, initDenoVars>>

(***************************************************************************)
(* validations: isHttpUrl                                                  *)
(***************************************************************************)
\* The characters a scheme may continue with, besides letters.
SchemeMarks == {"+", "-", "."}

\* The schemes the URL standard calls special, besides file.
SpecialSchemes == { <<"h", "t", "t", "p">>, <<"h", "t", "t", "p", "s">>,
                    <<"f", "t", "p">>, <<"w", "s">>, <<"w", "s", "s">> }

FileScheme == <<"f", "i", "l", "e">>

\* The position of the first ":" of s, or 0.
ColonAt(s) ==
  IF \E i \in 1..Len(s) : s[i] = ":"
    THEN CHOOSE i \in 1..Len(s) : s[i] = ":" /\ \A j \in 1..(i - 1) : s[j] # ":"
  ELSE 0

\* s without the slashes it starts with.
RECURSIVE SkipSlashes(_)
SkipSlashes(s) == IF s # << >> /\ Head(s) = "/" THEN SkipSlashes(Tail(s)) ELSE s

\* The length of the host s starts with: up to the first "/", "?" or "#".
RECURSIVE HostLen(_)
HostLen(s) ==
  IF s = << >> \/ Head(s) \in {"/", "?", "#"} THEN 0 ELSE 1 + HostLen(Tail(s))

\* new URL(value) without a base: throws for a string without a scheme and
\* for a special scheme without a host; href is the serialised URL, with
\* the scheme and the host of a special scheme in lower case, "//" after
\* the scheme of a special one and "/" as the least path.
NewURL(value) ==
  LET s == trim(value)
      colon == ColonAt(s)
      scheme == toLowerCase(SubSeq(s, 1, colon - 1))
      rest == From(s, colon + 1)
      after == SkipSlashes(rest)
      host == toLowerCase(SubSeq(after, 1, HostLen(after)))
      path == From(after, HostLen(after) + 1)
      rooted == IF path = << >> \/ Head(path) # "/" THEN <<"/">> \o path ELSE path
      fileHost == IF Len(rest) >= 2 /\ SubSeq(rest, 1, 2) = <<"/", "/">>
                    THEN toLowerCase(SubSeq(From(rest, 3), 1, HostLen(From(rest, 3))))
                  ELSE << >>
      filePath == IF Len(rest) >= 2 /\ SubSeq(rest, 1, 2) = <<"/", "/">>
                    THEN From(rest, 3 + Len(fileHost))
                  ELSE rest
      fileRooted == IF filePath = << >> \/ Head(filePath) # "/"
                      THEN <<"/">> \o filePath ELSE filePath
  IN  IF \/ colon <= 1
         \/ ~(IsUpper(s[1]) \/ IsLower(s[1]))
         \/ \E i \in 2..(colon - 1) :
              ~(IsUpper(s[i]) \/ IsLower(s[i]) \/ s[i] \in SchemeMarks)
        THEN [threw |-> TRUE, protocol |-> << >>, href |-> << >>]
      ELSE IF scheme \in SpecialSchemes
        THEN IF host = << >>
               THEN [threw |-> TRUE, protocol |-> << >>, href |-> << >>]
             ELSE [threw |-> FALSE, protocol |-> scheme,
                   href |-> scheme \o <<":", "/", "/">> \o host \o rooted]
      ELSE IF scheme = FileScheme
        THEN [threw |-> FALSE, protocol |-> scheme,
              href |-> scheme \o <<":", "/", "/">> \o fileHost \o fileRooted]
      ELSE [threw |-> FALSE, protocol |-> scheme, href |-> scheme \o <<":">> \o rest]

\* HTTP_URL_REGEX.test(s): /^(http|https):\/\//
HTTP_URL_REGEX(s) ==
  \/ OccursAt(s, <<"h", "t", "t", "p", ":", "/", "/">>, 1)
  \/ OccursAt(s, <<"h", "t", "t", "p", "s", ":", "/", "/">>, 1)

\* A slip: the value itself is tested, not the href of the parsed URL.
isHttpUrlUnparsed(value) == [value |-> HTTP_URL_REGEX(value), threw |-> FALSE]

\* isHttpUrl(value)
isHttpUrl(value) ==
  LET url == NewURL(value)
  IN  IF url.threw THEN [value |-> FALSE, threw |-> FALSE]
      ELSE [value |-> HTTP_URL_REGEX(url.href), threw |-> FALSE]

\* The strings given to isHttpUrl: a scheme or none, a separator or none,
\* and what follows.
UrlSchemes ==
  { << >>, <<"h", "t", "t", "p">>, <<"h", "t", "t", "p", "s">>, <<"H", "T", "T", "P">>,
    <<"f", "i", "l", "e">>, <<"f", "t", "p">>, <<"h", "t", "t", "p", "x">>,
    <<"x", "h", "t", "t", "p">>, <<" ", "h", "t", "t", "p">>, <<"1", "h">> }

UrlSeparators == { << >>, <<":">>, <<":", "/">>, <<":", "/", "/">> }

UrlRests ==
  { << >>, <<"a", ".", "b">>, <<"A", ".", "b", "/", "p">>, <<"/", "p">>,
    <<"a", "?", "q">>, <<"h", "t", "t", "p", ":", "/", "/", "a">> }

UrlValues == { a \o b \o c : a \in UrlSchemes, b \in UrlSeparators, c \in UrlRests }

NotValidated == [value |-> FALSE, threw |-> FALSE, called |-> FALSE]

\* A call of isHttpUrl(urlValue).
ValidateUrl ==
  /\ ~urlResult.called
  /\ urlResult' = [value |-> isHttpUrl(urlValue).value, threw |-> isHttpUrl(urlValue).threw,
                   called |-> TRUE]
  /\ UNCHANGED urlValue
  /\ UNCHANGED <<loggerVars, templateVars, cliVars, flagVars, gitVars, envVars, versionVars, tryVars, callsitesVars, subLoggerVars, stagedVars, initDenoVars>>

(***************************************************************************)
(* versioning: VersionObject                                               *)
(***************************************************************************)
Digits == <<"0", "1", "2", "3", "4", "5", "6", "7", "8", "9">>

IsDigit(c) == \E d \in 1..10 : Digits[d] = c

DigitValue(c) == (CHOOSE d \in 1..10 : Digits[d] = c) - 1

\* The decimal numeral of a number, and the number of a numeral.
RECURSIVE Numeral(_)
Numeral(n) == IF n < 10 THEN <<Digits[n + 1]>> ELSE Append(Numeral(n \div 10), Digits[(n % 10) + 1])

RECURSIVE NumberOf(_)
NumberOf(s) ==
  IF s = << >> THEN 0 ELSE 10 * NumberOf(SubSeq(s, 1, Len(s) - 1)) + DigitValue(s[Len(s)])

\* A numeric identifier: digits, without a leading zero.
IsNumeric(s) ==
  /\ s # << >>
  /\ \A i \in 1..Len(s) : IsDigit(s[i])
  /\ Len(s) > 1 => s[1] # "0"

\* The position of the first "." of s, or Len(s) + 1.
DotAt(s) ==
  IF \E i \in 1..Len(s) : s[i] = "."
    THEN CHOOSE i \in 1..Len(s) : s[i] = "." /\ \A j \in 1..(i - 1) : s[j] # "."
  ELSE Len(s) + 1

SemVer(major, minor, patch, prerelease) ==
  [major |-> major, minor |-> minor, patch |-> patch, prerelease |-> prerelease,
   build |-> << >>]

\* parse(version) of std/semver: an optional "v", three numeric identifiers
\* and an optional prerelease after "-"; a TypeError otherwise.
parseVersion(raw) ==
  LET s == IF raw # << >> /\ Head(raw) = "v" THEN Tail(raw) ELSE raw
      dash == IF \E i \in 1..Len(s) : s[i] = "-"
                THEN CHOOSE i \in 1..Len(s) : s[i] = "-" /\ \A j \in 1..(i - 1) : s[j] # "-"
              ELSE Len(s) + 1
      main == SubSeq(s, 1, dash - 1)
      pre == From(s, dash + 1)
      a == SubSeq(main, 1, DotAt(main) - 1)
      bc == From(main, DotAt(main) + 1)
      b == SubSeq(bc, 1, DotAt(bc) - 1)
      c == From(bc, DotAt(bc) + 1)
  IN  IF IsNumeric(a) /\ IsNumeric(b) /\ IsNumeric(c) /\ (dash <= Len(s) => pre # << >>)
        THEN [value |-> SemVer(NumberOf(a), NumberOf(b), NumberOf(c),
                               IF pre = << >> THEN << >> ELSE <<pre>>),
              threw |-> FALSE]
      ELSE [value |-> SemVer(0, 0, 0, << >>), threw |-> TRUE]

\* format(semver) of std/semver
formatVersion(semver) ==
  Numeral(semver.major) \o <<".">> \o Numeral(semver.minor) \o <<".">>
    \o Numeral(semver.patch)
    \o (IF semver.prerelease = << >> THEN << >> ELSE <<"-">> \o semver.prerelease[1])

\* A slip: the minor release keeps the patch number.
incrementKeepingPatch(version, release) ==
  CASE release = "major" -> SemVer(version.major + 1, 0, 0, << >>)
    [] release = "minor" -> SemVer(version.major, version.minor + 1, version.patch, << >>)
    [] release = "patch" -> SemVer(version.major, version.minor, version.patch + 1, << >>)

\* increment(version, release) of std/semver, which returns a new SemVer: a
\* prerelease of the release asked for is completed, every other version
\* is raised.
increment(version, release) ==
  CASE release = "major" ->
         IF version.minor # 0 \/ version.patch # 0 \/ version.prerelease = << >>
           THEN SemVer(version.major + 1, 0, 0, << >>)
         ELSE SemVer(version.major, 0, 0, << >>)
    [] release = "minor" ->
         IF version.patch # 0 \/ version.prerelease = << >>
           THEN SemVer(version.major, version.minor + 1, 0, << >>)
         ELSE SemVer(version.major, version.minor, 0, << >>)
    [] release = "patch" ->
         IF version.prerelease = << >>
           THEN SemVer(version.major, version.minor, version.patch + 1, << >>)
         ELSE SemVer(version.major, version.minor, version.patch, << >>)

\* new VersionObject(rawVersion) for a string and for a SemVer.
VersionObjectOfString(raw) ==
  [version |-> raw, semver |-> parseVersion(raw).value, tag |-> <<"v">> \o raw]

VersionObjectOfSemVer(semver) ==
  [version |-> formatVersion(semver), semver |-> semver,
   tag |-> <<"v">> \o formatVersion(semver)]

\* getNextPatch(), getNextMinor(), getNextMajor() without a prerelease
\* identifier.
getNextPatch(this) == VersionObjectOfSemVer(increment(this.semver, "patch"))

getNextMinor(this) == VersionObjectOfSemVer(increment(this.semver, "minor"))

getNextMajor(this) == VersionObjectOfSemVer(increment(this.semver, "major"))

NEXT_VERSION_METHOD_BY_RELEASE_TYPE ==
  [major |-> "getNextMajor", minor |-> "getNextMinor", patch |-> "getNextPatch"]

\* getNextVersion(type)
getNextVersion(this, type) ==
  LET method == NEXT_VERSION_METHOD_BY_RELEASE_TYPE[type]
  IN  CASE method = "getNextPatch" -> getNextPatch(this)
        [] method = "getNextMinor" -> getNextMinor(this)
        [] method = "getNextMajor" -> getNextMajor(this)

VALID_RELEASE_TYPE == {"major", "minor", "patch"}

\* The numbers a version is made of, one-digit and two-digit ones, and one
\* whose successor has a digit more.
VersionNumbers == {0, 1, 9, 12}

SemVers ==
  { SemVer(x, y, z, pre) : x \in VersionNumbers, y \in VersionNumbers,
                           z \in VersionNumbers, pre \in {<< >>, << <<"r", "c">> >>} }

\* The version objects a program holds: built from a SemVer, and built from a
\* string that parses, with and without the "v" in front.
VersionObjects ==
  { VersionObjectOfSemVer(v) : v \in SemVers }
    \cup { VersionObjectOfString(formatVersion(v)) : v \in SemVers }
    \cup { VersionObjectOfString(<<"v">> \o formatVersion(v)) : v \in SemVers }

NoVersionObject == VersionObjectOfSemVer(SemVer(0, 0, 0, << >>))

NoNextVersion ==
  [type |-> "none", byType |-> NoVersionObject, byMethod |-> NoVersionObject]

\* A call of getNextVersion(type) and of the method of that release type on
\* the same object.
CallGetNextVersion ==
  /\ nextVersion.type = "none"
  /\ \E type \in VALID_RELEASE_TYPE :
       nextVersion' =
         [type |-> type,
          byType |-> getNextVersion(versionObject, type),
          byMethod |-> CASE type = "patch" -> getNextPatch(versionObject)
                         [] type = "minor" -> getNextMinor(versionObject)
                         [] type = "major" -> getNextMajor(versionObject)]
  /\ UNCHANGED versionObject
  /\ UNCHANGED <<loggerVars, templateVars, cliVars, flagVars, gitVars, envVars, urlVars, tryVars, callsitesVars, subLoggerVars, stagedVars, initDenoVars>>

(***************************************************************************)
(* tryCatch                                                                *)
(***************************************************************************)
\* The values a function returns and a fallback is: lists of paths.
PathLists == UNION { [1..k -> {"a.ts", "b.ts"}] : k \in 0..2 }

\* A function given to tryCatch: it returns a value or throws an error.
Functions ==
  { [error |-> Undefined, value |-> v, throws |-> FALSE] : v \in PathLists }
    \cup { [error |-> e, value |-> << >>, throws |-> TRUE] :
             e \in {"NotFound", "TypeError"} }

IdleFunction == [error |-> Undefined, value |-> << >>, throws |-> FALSE]

NotTried == [returned |-> FALSE, value |-> << >>, threw |-> FALSE, fnCalls |-> 0]

\* A call of tryCatch(tryFn, tryFallback): fn is called once, inside the try
\* block, and the catch clause has no binding and does not rethrow.
CallTryCatch ==
  /\ ~tryOutcome.returned
  /\ tryOutcome' = [returned |-> TRUE, value |-> tryCatch(tryFn.throws, tryFn.value, tryFallback),
                    threw |-> FALSE,
                    fnCalls |-> tryOutcome.fnCalls + 1]
  /\ UNCHANGED <<tryFn, tryFallback>>
  /\ UNCHANGED <<loggerVars, templateVars, cliVars, flagVars, gitVars, envVars, urlVars, versionVars, callsitesVars, subLoggerVars, stagedVars, initDenoVars>>

(***************************************************************************)
(* callsites and the Error.prepareStackTrace hook                          *)
(***************************************************************************)
\* Both files that define callsites.
CallsitesSources == {"tools/callsites.ts", "unnamed/part_004"}

\* The hook callsites installs while it reads the stack.
TemporaryHook == "callsites hook"

\* The values the program itself gives to Error.prepareStackTrace.
UserHooks == {Undefined, "user hook"}

\* The error callsites is given: none (the default parameter makes one), an
\* Error whose stack was not read yet, an Error whose stack was read and is
\* a string, an object without a stack, an object whose stack getter throws.
ErrorKinds == {"default", "fresh", "formatted", "stackless", "throwing"}

\* Who calls: the program, or LogObject.setLogFields for a log call, which
\* passes the error only if it is an Error.
Callers == {"program", "log"}

NoCallsitesCall == [outcome |-> "none", error |-> "default", caller |-> "none"]

\* The program assigns Error.prepareStackTrace; JavaScript runs callsites to
\* completion, so never in the middle of a call.
AssignHook ==
  /\ callsitesPc = "idle"
  /\ \E hook \in UserHooks :
       /\ hook # prepareStackTrace
       /\ prepareStackTrace' = hook
  /\ UNCHANGED <<callsitesSource, savedPrepareStackTrace, callsitesPc, callsitesCall>>
  /\ UNCHANGED <<loggerVars, templateVars, cliVars, flagVars, gitVars, envVars, urlVars, versionVars, tryVars, subLoggerVars, stagedVars, initDenoVars>>

\* const _prepareStackTrace = Error.prepareStackTrace
SaveHook ==
  /\ callsitesPc = "idle"
  /\ \E caller \in Callers, kind \in ErrorKinds :
       /\ caller = "log" => kind \in {"default", "fresh", "formatted"}
       /\ callsitesCall' = [outcome |-> "running", error |-> kind, caller |-> caller]
  /\ savedPrepareStackTrace' = prepareStackTrace
  /\ callsitesPc' = "try"
  /\ UNCHANGED <<callsitesSource, prepareStackTrace>>
  /\ UNCHANGED <<loggerVars, templateVars, cliVars, flagVars, gitVars, envVars, urlVars, versionVars, tryVars, subLoggerVars, stagedVars, initDenoVars>>

\* Error.prepareStackTrace = (_, callsites) => ...
InstallHook ==
  /\ callsitesPc = "try"
  /\ prepareStackTrace' = TemporaryHook
  /\ callsitesPc' = "stack"
  /\ UNCHANGED <<callsitesSource, savedPrepareStackTrace, callsitesCall>>
  /\ UNCHANGED <<loggerVars, templateVars, cliVars, flagVars, gitVars, envVars, urlVars, versionVars, tryVars, subLoggerVars, stagedVars, initDenoVars>>

\* Whether the rest of the try block throws: reading a stack whose getter
\* throws does; in unnamed/part_004 so does stack.shift / stack.filter on a
\* stack that is a string or undefined.
ReadStackThrows(src, kind) ==
  \/ kind = "throwing"
  \/ src = "unnamed/part_004" /\ kind \in {"formatted", "stackless"}

\* return error.stack ... : the try block ends, by return or by throw.
ReadStack ==
  /\ callsitesPc = "stack"
  /\ callsitesCall' =
       [callsitesCall EXCEPT !.outcome =
          IF ReadStackThrows(callsitesSource, callsitesCall.error)
            THEN "threw" ELSE "returned"]
  /\ callsitesPc' = "finally"
  /\ UNCHANGED <<callsitesSource, prepareStackTrace, savedPrepareStackTrace>>
  /\ UNCHANGED <<loggerVars, templateVars, cliVars, flagVars, gitVars, envVars, urlVars, versionVars, tryVars, subLoggerVars, stagedVars, initDenoVars>>

\* A slip: the finally block is missing.
RestoreHookSkipped ==
  /\ callsitesPc = "finally"
  /\ callsitesPc' = "idle"
  /\ UNCHANGED <<callsitesSource, prepareStackTrace, savedPrepareStackTrace,
                 callsitesCall>>
  /\ UNCHANGED <<loggerVars, templateVars, cliVars, flagVars, gitVars, envVars, urlVars, versionVars, tryVars, subLoggerVars, stagedVars, initDenoVars>>

\* finally { Error.prepareStackTrace = _prepareStackTrace }
RestoreHook ==
  /\ callsitesPc = "finally"
  /\ prepareStackTrace' = savedPrepareStackTrace
  /\ callsitesPc' = "idle"
  /\ UNCHANGED <<callsitesSource, savedPrepareStackTrace, callsitesCall>>
  /\ UNCHANGED <<loggerVars, templateVars, cliVars, flagVars, gitVars, envVars, urlVars, versionVars, tryVars, subLoggerVars, stagedVars, initDenoVars>>

(***************************************************************************)
(* Logger objects and getSubLogger                                         *)
(***************************************************************************)
\* new Logger(settings): the constructor of BaseLogger parses the settings,
\* then the object's prototype is set to that of PrettyLogger or JsonLogger.
NewLogger(st) ==
  [settings |-> st,
   class |-> IF st.mode = "PRETTY" THEN "PrettyLogger" ELSE "JsonLogger"]

\* new PrettyLogger(settings), new JsonLogger(settings): neither class has a
\* constructor of its own, so only the constructor of BaseLogger runs.
NewOfClass(class, st) ==
  IF class = "Logger" THEN NewLogger(st) ELSE [settings |-> st, class |-> class]

\* this.constructor: found on the prototype the object has now.
ConstructorOf(logger) == logger.class

\* deepMerge(this.settings, settings) for overrides with string values.
MergeSettings(st, overrides) ==
  [k \in DOMAIN st |-> IF HasOwn(k, overrides) THEN ValueOf(overrides, k) ELSE st[k]]

\* getSubLogger(settings)
getSubLogger(logger, overrides) ==
  NewOfClass(ConstructorOf(logger), MergeSettings(logger.settings, overrides))

\* this.format(logObject) is the method of the object's class.
FormatModeOf(logger) == IF logger.class = "PrettyLogger" THEN "PRETTY" ELSE "JSON"

\* The overrides given to getSubLogger: any of mode, severity and module.
Overrides ==
  { SelectPairs(<<[key |-> "mode", value |-> mo], [key |-> "severity", value |-> sv],
                  [key |-> "module", value |-> "db"]>>, keys) :
      mo \in Mode, sv \in {"DEBUG", "ERROR"},
      keys \in SUBSET {"mode", "severity", "module"} }

\* No logger yet.
NoLogger ==
  [settings |-> [id |-> Undefined, environment |-> "", version |-> Undefined,
                 severity |-> "SILENT", padding |-> DefaultPadding, mode |-> "PRETTY",
                 module |-> Undefined, application |-> ""],
   class |-> "none"]

NothingFormatted == [logger |-> "none", mode |-> "none", settingsMode |-> "none"]

\* const sub = parent.getSubLogger(overrides)
CallGetSubLogger ==
  /\ subLogger.class = "none"
  /\ \E overrides \in Overrides : subLogger' = getSubLogger(parentLogger, overrides)
  /\ UNCHANGED <<parentLogger, formattedBy>>
  /\ UNCHANGED <<loggerVars, templateVars, cliVars, flagVars, gitVars, envVars, urlVars, versionVars, tryVars, callsitesVars, stagedVars, initDenoVars>>

\* A log call on the parent or on the sub-logger formats its record.
FormatRecord ==
  /\ formattedBy.logger = "none"
  /\ \E which \in {"parent", "sub"} :
       LET logger == IF which = "parent" THEN parentLogger ELSE subLogger
       IN  /\ logger.class # "none"
           /\ formattedBy' = [logger |-> which, mode |-> FormatModeOf(logger),
                              settingsMode |-> logger.settings.mode]
  /\ UNCHANGED <<parentLogger, subLogger>>
  /\ UNCHANGED <<loggerVars, templateVars, cliVars, flagVars, gitVars, envVars, urlVars, versionVars, tryVars, callsitesVars, stagedVars, initDenoVars>>

(***************************************************************************)
(* Staged rendering: render on the template partialRender returned         *)
(***************************************************************************)
NotStaged == [replacements |-> << >>, result |-> << >>, kind |-> "none", threw |-> FALSE]

\* Replacement objects whose keys are not among those of the given one.
DisjointFrom(replacements) ==
  { r \in Supplied : KeysOf(r) \cap KeysOf(replacements) = {} }

\* template.partialRender(r1).render(r2): the second call, on the template
\* the first call created, with replacements of other keys.
renderCreated ==
  /\ rendered.kind = "partialRender"
  /\ staged.kind = "none"
  /\ \E replacements \in DisjointFrom(rendered.replacements) :
       LET result == RenderText(rendered.created, replacements, TRUE)
       IN  staged' = [replacements |-> replacements,
                      result |-> IF ValidateThrows(result) THEN << >> ELSE result,
                      kind |-> "render",
                      threw |-> ValidateThrows(result)]
  /\ UNCHANGED <<template, rendered>>
  /\ UNCHANGED <<loggerVars, cliVars, flagVars, gitVars, envVars, urlVars, versionVars, tryVars, callsitesVars, subLoggerVars, initDenoVars>>

\* The templates staged rendering is tried on.
StagedTexts == Strings(3) \cup LongTexts

(***************************************************************************)
(* init-deno: the action of the command                                    *)
(***************************************************************************)
\* Both files that define the command.
InitDenoSources == {"unnamed/part_001", "bin/init-deno.ts"}

\* A path is a sequence of pieces of text, "/" being a piece of its own.
\* Its segments: the pieces between slashes joined, without "" and ".".
RECURSIVE SegmentsFrom(_, _, _)
SegmentsFrom(p, current, done) ==
  LET flushed == IF current \in {"", "."} THEN done ELSE Append(done, current)
  IN  IF p = << >> THEN flushed
      ELSE IF Head(p) = "/" THEN SegmentsFrom(Tail(p), "", flushed)
      ELSE SegmentsFrom(Tail(p), current \o Head(p), done)

Segments(p) == SegmentsFrom(p, "", << >>)

\* path.endsWith("/")
endsWithSlash(p) == p # << >> /\ p[Len(p)] = "/"

\* The directory of the process exists; any other one if it was created.
DirExists(dirs, segs) == segs = << >> \/ segs \in dirs

Prefixes(segs) == { SubSeq(segs, 1, n) : n \in 1..Len(segs) }

\* Deno.mkdirSync(path, { recursive }): without recursive it throws when the
\* directory exists and when its parent does not.
mkdirSync(dirs, p, recursive) ==
  LET segs == Segments(p)
  IN  IF recursive THEN [threw |-> FALSE, dirs |-> dirs \cup Prefixes(segs)]
      ELSE IF DirExists(dirs, segs) \/ ~DirExists(dirs, SubSeq(segs, 1, Len(segs) - 1))
        THEN [threw |-> TRUE, dirs |-> dirs]
      ELSE [threw |-> FALSE, dirs |-> dirs \cup {segs}]

\* Deno.writeTextFileSync(path, content) throws when the directory of the
\* file does not exist.
writeTextFileSync(dirs, files, p) ==
  LET segs == Segments(p)
  IN  IF DirExists(dirs, SubSeq(segs, 1, Len(segs) - 1))
        THEN [threw |-> FALSE, files |-> files \cup {segs}]
      ELSE [threw |-> TRUE, files |-> files]

\* `path` after the first lines of the action, and vscodePath.
NormalisedPath(src, p) ==
  IF src = "unnamed/part_001" /\ ~endsWithSlash(p) THEN p \o <<"/">> ELSE p

vscodePath(src, p) ==
  IF src = "unnamed/part_001" THEN NormalisedPath(src, p) \o <<".vscode", "/">>
  ELSE p \o <<".", "/", "vscode", "/">>

\* The statements of the action after those, in order.
Fetch(file) == [path |-> << >>, kind |-> "fetch", file |-> file, recursive |-> FALSE]

Mkdir(p, recursive) == [path |-> p, kind |-> "mkdir", file |-> "", recursive |-> recursive]

WriteFile(file, p) == [path |-> p, kind |-> "write", file |-> file, recursive |-> FALSE]

LogInfo == [path |-> << >>, kind |-> "log", file |-> "", recursive |-> FALSE]

Statements(src, p) ==
  IF src = "unnamed/part_001"
    THEN << Fetch("extensions.json"), Fetch("settings.json"), Fetch("LICENSE"),
            Mkdir(vscodePath(src, p), TRUE),
            WriteFile("extensions.json", vscodePath(src, p) \o <<"extensions.json">>),
            WriteFile("settings.json", vscodePath(src, p) \o <<"settings.json">>),
            WriteFile("LICENSE", NormalisedPath(src, p) \o <<"LICENSE">>),
            LogInfo >>
  ELSE << Fetch("extensions.json"), Fetch("settings.json"),
          Mkdir(vscodePath(src, p), FALSE),
          Mkdir(p, TRUE),
          WriteFile("extensions.json", vscodePath(src, p) \o <<"extensions.json">>),
          WriteFile("settings.json", vscodePath(src, p) \o <<"settings.json">> ) >>

RemoteFiles == {"extensions.json", "settings.json", "LICENSE"}

TargetPaths == { <<"proj">>, <<"proj", "/">> }

\* The statement the action is at.
Current == Statements(initDenoSource, targetPath)[initDenoPc]

\* After a statement: the next one, or the end of the action.
Advance ==
  IF initDenoPc = Len(Statements(initDenoSource, targetPath))
    THEN initDenoPc' = 0 /\ initDenoOutcome' = "resolved"
    ELSE initDenoPc' = initDenoPc + 1 /\ UNCHANGED initDenoOutcome

\* A statement throws: the promise of the action rejects.
Reject == initDenoPc' = 0 /\ initDenoOutcome' = "rejected"

\* The command is run: action(_options, path).
StartInitDeno ==
  /\ initDenoOutcome = "none"
  /\ initDenoPc = 0
  /\ initDenoPc' = 1
  /\ initDenoOutcome' = "running"
  /\ UNCHANGED <<initDenoSource, targetPath, targetExisted, unreachable, fsDirs, fsFiles,
                 events>>
  /\ UNCHANGED <<loggerVars, templateVars, cliVars, flagVars, gitVars, envVars, urlVars, versionVars, tryVars, callsitesVars, subLoggerVars, stagedVars>>

\* await getExtensionsFile() and the like: fetch rejects when the host
\* cannot be reached.
FetchFile ==
  /\ initDenoOutcome = "running"
  /\ Current.kind = "fetch"
  /\ IF Current.file \in unreachable
       THEN Reject /\ UNCHANGED events
       ELSE Advance /\ events' = Append(events, <<"fetch", Current.file>>)
  /\ UNCHANGED <<initDenoSource, targetPath, targetExisted, unreachable, fsDirs, fsFiles>>
  /\ UNCHANGED <<loggerVars, templateVars, cliVars, flagVars, gitVars, envVars, urlVars, versionVars, tryVars, callsitesVars, subLoggerVars, stagedVars>>

\* Deno.mkdirSync(...)
MakeDirectory ==
  /\ initDenoOutcome = "running"
  /\ Current.kind = "mkdir"
  /\ LET made == mkdirSync(fsDirs, Current.path, Current.recursive)
     IN  IF made.threw
           THEN Reject /\ UNCHANGED <<fsDirs, events>>
           ELSE /\ Advance
                /\ fsDirs' = made.dirs
                /\ events' = Append(events, <<"mkdir", "">>)
  /\ UNCHANGED <<initDenoSource, targetPath, targetExisted, unreachable, fsFiles>>
  /\ UNCHANGED <<loggerVars, templateVars, cliVars, flagVars, gitVars, envVars, urlVars, versionVars, tryVars, callsitesVars, subLoggerVars, stagedVars>>

\* Deno.writeTextFileSync(...)
WriteTextFile ==
  /\ initDenoOutcome = "running"
  /\ Current.kind = "write"
  /\ LET written == writeTextFileSync(fsDirs, fsFiles, Current.path)
     IN  IF written.threw
           THEN Reject /\ UNCHANGED <<fsFiles, events>>
           ELSE /\ Advance
                /\ fsFiles' = written.files
                /\ events' = Append(events, <<"write", Current.file>>)
  /\ UNCHANGED <<initDenoSource, targetPath, targetExisted, unreachable, fsDirs>>
  /\ UNCHANGED <<loggerVars, templateVars, cliVars, flagVars, gitVars, envVars, urlVars, versionVars, tryVars, callsitesVars, subLoggerVars, stagedVars>>

\* globalThis.logger.info(`New project created at ${path}`)
LogCreated ==
  /\ initDenoOutcome = "running"
  /\ Current.kind = "log"
  /\ Advance
  /\ events' = Append(events, <<"log", "">>)
  /\ UNCHANGED <<initDenoSource, targetPath, targetExisted, unreachable, fsDirs, fsFiles>>
  /\ UNCHANGED <<loggerVars, templateVars, cliVars, flagVars, gitVars, envVars, urlVars, versionVars, tryVars, callsitesVars, subLoggerVars, stagedVars>>

(***************************************************************************)
(* Specifications                                                          *)
(***************************************************************************)
\* The logger of the command runner (getSetup), before any call.
IdleLogger ==
  [source |-> "tools/logger.ts",
   settings |-> [id |-> Undefined, environment |-> "",
                 version |-> Undefined, severity |-> "INFORMATIONAL", padding |-> DefaultPadding,
                 mode |-> "PRETTY", module |-> Undefined,
                 application |-> "run"]]

\* The runner before it starts, with an empty scripts directory.
IdleCli ==
  [entry |-> "unnamed/part_000", isMain |-> TRUE,
   binDir |-> [ok |-> TRUE, files |-> << >>], remote |-> BrokenModule]

NotImported == [i \in 1..(MaxFiles + 1) |-> << >>]

\* new Logger(settings)
InitLogger ==
  /\ source \in LoggerSources
  /\ settings \in SettingsInputs
  /\ severityLevel = SeverityLevel[settings.severity]
  /\ transported = [n \in SeverityName |-> 0]
  /\ lastCall = NoCall
  /\ emitted = << >>
  /\ outcome = "none"
  /\ returned = BlankLogObject
  /\ calls = 0
  /\ template = NoTemplate
  /\ rendered = NotRendered
  /\ entry = IdleCli.entry
  /\ isMain = IdleCli.isMain
  /\ binDir = IdleCli.binDir
  /\ remote = IdleCli.remote
  /\ pc = "start"
  /\ abortCause = "none"
  /\ localPaths = << >>
  /\ paths = << >>
  /\ pending = {}
  /\ imported = NotImported
  /\ settled = << >>
  /\ subcommands = << >>
  /\ registered = << >>
  /\ parsed = FALSE
  /\ flag = NoFlag
  /\ declaration = Undefined
  /\ gitOptions = << >>
  /\ gitPc = "new"
  /\ gitBody = << >>
  /\ invoked = << >>
  /\ gitReturned = NothingReturned
  /\ history = << >>
  /\ gitCall = NoGitCall
  /\ environ = EmptyEnvironment
  /\ setup = NoSetup
  /\ envRead = NothingRead
  /\ urlValue = << >>
  /\ urlResult = NotValidated
  /\ versionObject = NoVersionObject
  /\ nextVersion = NoNextVersion
  /\ tryFn = IdleFunction
  /\ tryFallback = << >>
  /\ tryOutcome = NotTried
  /\ callsitesSource = "tools/callsites.ts"
  /\ prepareStackTrace = Undefined
  /\ savedPrepareStackTrace = Undefined
  /\ callsitesPc = "idle"
  /\ callsitesCall = NoCallsitesCall
  /\ parentLogger = NewLogger(IdleLogger.settings)
  /\ subLogger = NoLogger
  /\ formattedBy = NothingFormatted
  /\ staged = NotStaged
  /\ initDenoSource = "unnamed/part_001"
  /\ targetPath = <<"proj">>
  /\ targetExisted = FALSE
  /\ unreachable = {}
  /\ initDenoPc = 0
  /\ initDenoOutcome = "none"
  /\ fsDirs = {}
  /\ fsFiles = {}
  /\ events = << >>

NextLogger == debug \/ info \/ http \/ warn \/ error

SpecLogger == InitLogger /\ [][NextLogger]_vars

\* new Template(value, defaults)
InitTemplate ==
  /\ source = IdleLogger.source
  /\ settings = IdleLogger.settings
  /\ severityLevel = SeverityLevel[settings.severity]
  /\ transported = [n \in SeverityName |-> 0]
  /\ lastCall = NoCall
  /\ emitted = << >>
  /\ outcome = "none"
  /\ returned = BlankLogObject
  /\ calls = 0
  /\ template \in { NewTemplate(t, d) : t \in Texts, d \in Defaults }
  /\ rendered = NotRendered
  /\ entry = IdleCli.entry
  /\ isMain = IdleCli.isMain
  /\ binDir = IdleCli.binDir
  /\ remote = IdleCli.remote
  /\ pc = "start"
  /\ abortCause = "none"
  /\ localPaths = << >>
  /\ paths = << >>
  /\ pending = {}
  /\ imported = NotImported
  /\ settled = << >>
  /\ subcommands = << >>
  /\ registered = << >>
  /\ parsed = FALSE
  /\ flag = NoFlag
  /\ declaration = Undefined
  /\ gitOptions = << >>
  /\ gitPc = "new"
  /\ gitBody = << >>
  /\ invoked = << >>
  /\ gitReturned = NothingReturned
  /\ history = << >>
  /\ gitCall = NoGitCall
  /\ environ = EmptyEnvironment
  /\ setup = NoSetup
  /\ envRead = NothingRead
  /\ urlValue = << >>
  /\ urlResult = NotValidated
  /\ versionObject = NoVersionObject
  /\ nextVersion = NoNextVersion
  /\ tryFn = IdleFunction
  /\ tryFallback = << >>
  /\ tryOutcome = NotTried
  /\ callsitesSource = "tools/callsites.ts"
  /\ prepareStackTrace = Undefined
  /\ savedPrepareStackTrace = Undefined
  /\ callsitesPc = "idle"
  /\ callsitesCall = NoCallsitesCall
  /\ parentLogger = NewLogger(IdleLogger.settings)
  /\ subLogger = NoLogger
  /\ formattedBy = NothingFormatted
  /\ staged = NotStaged
  /\ initDenoSource = "unnamed/part_001"
  /\ targetPath = <<"proj">>
  /\ targetExisted = FALSE
  /\ unreachable = {}
  /\ initDenoPc = 0
  /\ initDenoOutcome = "none"
  /\ fsDirs = {}
  /\ fsFiles = {}
  /\ events = << >>

NextTemplate == render \/ partialRender

SpecTemplate == InitTemplate /\ [][NextTemplate]_vars

\* The runner module starts evaluating.
InitCli ==
  /\ source = IdleLogger.source
  /\ settings = IdleLogger.settings
  /\ severityLevel = SeverityLevel[settings.severity]
  /\ transported = [n \in SeverityName |-> 0]
  /\ lastCall = NoCall
  /\ emitted = << >>
  /\ outcome = "none"
  /\ returned = BlankLogObject
  /\ calls = 0
  /\ template = NoTemplate
  /\ rendered = NotRendered
  /\ entry \in Entries
  /\ isMain \in BOOLEAN
  /\ binDir \in Directories
  /\ remote \in RemoteModules
  /\ pc = "start"
  /\ abortCause = "none"
  /\ localPaths = << >>
  /\ paths = << >>
  /\ pending = {}
  /\ imported = NotImported
  /\ settled = << >>
  /\ subcommands = << >>
  /\ registered = << >>
  /\ parsed = FALSE
  /\ flag = NoFlag
  /\ declaration = Undefined
  /\ gitOptions = << >>
  /\ gitPc = "new"
  /\ gitBody = << >>
  /\ invoked = << >>
  /\ gitReturned = NothingReturned
  /\ history = << >>
  /\ gitCall = NoGitCall
  /\ environ = EmptyEnvironment
  /\ setup = NoSetup
  /\ envRead = NothingRead
  /\ urlValue = << >>
  /\ urlResult = NotValidated
  /\ versionObject = NoVersionObject
  /\ nextVersion = NoNextVersion
  /\ tryFn = IdleFunction
  /\ tryFallback = << >>
  /\ tryOutcome = NotTried
  /\ callsitesSource = "tools/callsites.ts"
  /\ prepareStackTrace = Undefined
  /\ savedPrepareStackTrace = Undefined
  /\ callsitesPc = "idle"
  /\ callsitesCall = NoCallsitesCall
  /\ parentLogger = NewLogger(IdleLogger.settings)
  /\ subLogger = NoLogger
  /\ formattedBy = NothingFormatted
  /\ staged = NotStaged
  /\ initDenoSource = "unnamed/part_001"
  /\ targetPath = <<"proj">>
  /\ targetExisted = FALSE
  /\ unreachable = {}
  /\ initDenoPc = 0
  /\ initDenoOutcome = "none"
  /\ fsDirs = {}
  /\ fsFiles = {}
  /\ events = << >>

NextCli == ListPaths \/ ImportResolves \/ ImportRejects \/ Adapt \/ Register \/ Parse

SpecCli == InitCli /\ [][NextCli]_vars

\* A flag of a command descriptor.
InitFlag ==
  /\ source = IdleLogger.source
  /\ settings = IdleLogger.settings
  /\ severityLevel = SeverityLevel[settings.severity]
  /\ transported = [n \in SeverityName |-> 0]
  /\ lastCall = NoCall
  /\ emitted = << >>
  /\ outcome = "none"
  /\ returned = BlankLogObject
  /\ calls = 0
  /\ template = NoTemplate
  /\ rendered = NotRendered
  /\ entry = IdleCli.entry
  /\ isMain = IdleCli.isMain
  /\ binDir = IdleCli.binDir
  /\ remote = IdleCli.remote
  /\ pc = "start"
  /\ abortCause = "none"
  /\ localPaths = << >>
  /\ paths = << >>
  /\ pending = {}
  /\ imported = NotImported
  /\ settled = << >>
  /\ subcommands = << >>
  /\ registered = << >>
  /\ parsed = FALSE
  /\ flag \in FlagInputs
  /\ declaration = Undefined
  /\ gitOptions = << >>
  /\ gitPc = "new"
  /\ gitBody = << >>
  /\ invoked = << >>
  /\ gitReturned = NothingReturned
  /\ history = << >>
  /\ gitCall = NoGitCall
  /\ environ = EmptyEnvironment
  /\ setup = NoSetup
  /\ envRead = NothingRead
  /\ urlValue = << >>
  /\ urlResult = NotValidated
  /\ versionObject = NoVersionObject
  /\ nextVersion = NoNextVersion
  /\ tryFn = IdleFunction
  /\ tryFallback = << >>
  /\ tryOutcome = NotTried
  /\ callsitesSource = "tools/callsites.ts"
  /\ prepareStackTrace = Undefined
  /\ savedPrepareStackTrace = Undefined
  /\ callsitesPc = "idle"
  /\ callsitesCall = NoCallsitesCall
  /\ parentLogger = NewLogger(IdleLogger.settings)
  /\ subLogger = NoLogger
  /\ formattedBy = NothingFormatted
  /\ staged = NotStaged
  /\ initDenoSource = "unnamed/part_001"
  /\ targetPath = <<"proj">>
  /\ targetExisted = FALSE
  /\ unreachable = {}
  /\ initDenoPc = 0
  /\ initDenoOutcome = "none"
  /\ fsDirs = {}
  /\ fsFiles = {}
  /\ events = << >>

NextFlag == Stringify

SpecFlag == InitFlag /\ [][NextFlag]_vars

\* A repository, and the default options of a Git object to be.
InitGit ==
  /\ source = IdleLogger.source
  /\ settings = IdleLogger.settings
  /\ severityLevel = SeverityLevel[settings.severity]
  /\ transported = [n \in SeverityName |-> 0]
  /\ lastCall = NoCall
  /\ emitted = << >>
  /\ outcome = "none"
  /\ returned = BlankLogObject
  /\ calls = 0
  /\ template = NoTemplate
  /\ rendered = NotRendered
  /\ entry = IdleCli.entry
  /\ isMain = IdleCli.isMain
  /\ binDir = IdleCli.binDir
  /\ remote = IdleCli.remote
  /\ pc = "start"
  /\ abortCause = "none"
  /\ localPaths = << >>
  /\ paths = << >>
  /\ pending = {}
  /\ imported = NotImported
  /\ settled = << >>
  /\ subcommands = << >>
  /\ registered = << >>
  /\ parsed = FALSE
  /\ flag = NoFlag
  /\ declaration = Undefined
  /\ gitOptions \in GitDefaultOptions
  /\ gitPc = "new"
  /\ gitBody = << >>
  /\ invoked = << >>
  /\ gitReturned = NothingReturned
  /\ history \in Histories
  /\ gitCall = NoGitCall
  /\ environ = EmptyEnvironment
  /\ setup = NoSetup
  /\ envRead = NothingRead
  /\ urlValue = << >>
  /\ urlResult = NotValidated
  /\ versionObject = NoVersionObject
  /\ nextVersion = NoNextVersion
  /\ tryFn = IdleFunction
  /\ tryFallback = << >>
  /\ tryOutcome = NotTried
  /\ callsitesSource = "tools/callsites.ts"
  /\ prepareStackTrace = Undefined
  /\ savedPrepareStackTrace = Undefined
  /\ callsitesPc = "idle"
  /\ callsitesCall = NoCallsitesCall
  /\ parentLogger = NewLogger(IdleLogger.settings)
  /\ subLogger = NoLogger
  /\ formattedBy = NothingFormatted
  /\ staged = NotStaged
  /\ initDenoSource = "unnamed/part_001"
  /\ targetPath = <<"proj">>
  /\ targetExisted = FALSE
  /\ unreachable = {}
  /\ initDenoPc = 0
  /\ initDenoOutcome = "none"
  /\ fsDirs = {}
  /\ fsFiles = {}
  /\ events = << >>

NextGit == NewGit \/ add \/ commit \/ config \/ init \/ gitLog

SpecGit == InitGit /\ [][NextGit]_vars

\* The environment the runner is started in.
InitEnv ==
  /\ source = IdleLogger.source
  /\ settings = IdleLogger.settings
  /\ severityLevel = SeverityLevel[settings.severity]
  /\ transported = [n \in SeverityName |-> 0]
  /\ lastCall = NoCall
  /\ emitted = << >>
  /\ outcome = "none"
  /\ returned = BlankLogObject
  /\ calls = 0
  /\ template = NoTemplate
  /\ rendered = NotRendered
  /\ entry = IdleCli.entry
  /\ isMain = IdleCli.isMain
  /\ binDir = IdleCli.binDir
  /\ remote = IdleCli.remote
  /\ pc = "start"
  /\ abortCause = "none"
  /\ localPaths = << >>
  /\ paths = << >>
  /\ pending = {}
  /\ imported = NotImported
  /\ settled = << >>
  /\ subcommands = << >>
  /\ registered = << >>
  /\ parsed = FALSE
  /\ flag = NoFlag
  /\ declaration = Undefined
  /\ gitOptions = << >>
  /\ gitPc = "new"
  /\ gitBody = << >>
  /\ invoked = << >>
  /\ gitReturned = NothingReturned
  /\ history = << >>
  /\ gitCall = NoGitCall
  /\ environ \in Environments
  /\ setup = NoSetup
  /\ envRead = NothingRead
  /\ urlValue = << >>
  /\ urlResult = NotValidated
  /\ versionObject = NoVersionObject
  /\ nextVersion = NoNextVersion
  /\ tryFn = IdleFunction
  /\ tryFallback = << >>
  /\ tryOutcome = NotTried
  /\ callsitesSource = "tools/callsites.ts"
  /\ prepareStackTrace = Undefined
  /\ savedPrepareStackTrace = Undefined
  /\ callsitesPc = "idle"
  /\ callsitesCall = NoCallsitesCall
  /\ parentLogger = NewLogger(IdleLogger.settings)
  /\ subLogger = NoLogger
  /\ formattedBy = NothingFormatted
  /\ staged = NotStaged
  /\ initDenoSource = "unnamed/part_001"
  /\ targetPath = <<"proj">>
  /\ targetExisted = FALSE
  /\ unreachable = {}
  /\ initDenoPc = 0
  /\ initDenoOutcome = "none"
  /\ fsDirs = {}
  /\ fsFiles = {}
  /\ events = << >>

NextEnv == getSetup \/ ReadEnvironment

SpecEnv == InitEnv /\ [][NextEnv]_vars

\* isHttpUrl(value) for a value
InitUrl ==
  /\ source = IdleLogger.source
  /\ settings = IdleLogger.settings
  /\ severityLevel = SeverityLevel[settings.severity]
  /\ transported = [n \in SeverityName |-> 0]
  /\ lastCall = NoCall
  /\ emitted = << >>
  /\ outcome = "none"
  /\ returned = BlankLogObject
  /\ calls = 0
  /\ template = NoTemplate
  /\ rendered = NotRendered
  /\ entry = IdleCli.entry
  /\ isMain = IdleCli.isMain
  /\ binDir = IdleCli.binDir
  /\ remote = IdleCli.remote
  /\ pc = "start"
  /\ abortCause = "none"
  /\ localPaths = << >>
  /\ paths = << >>
  /\ pending = {}
  /\ imported = NotImported
  /\ settled = << >>
  /\ subcommands = << >>
  /\ registered = << >>
  /\ parsed = FALSE
  /\ flag = NoFlag
  /\ declaration = Undefined
  /\ gitOptions = << >>
  /\ gitPc = "new"
  /\ gitBody = << >>
  /\ invoked = << >>
  /\ gitReturned = NothingReturned
  /\ history = << >>
  /\ gitCall = NoGitCall
  /\ environ = EmptyEnvironment
  /\ setup = NoSetup
  /\ envRead = NothingRead
  /\ urlValue \in UrlValues
  /\ urlResult = NotValidated
  /\ versionObject = NoVersionObject
  /\ nextVersion = NoNextVersion
  /\ tryFn = IdleFunction
  /\ tryFallback = << >>
  /\ tryOutcome = NotTried
  /\ callsitesSource = "tools/callsites.ts"
  /\ prepareStackTrace = Undefined
  /\ savedPrepareStackTrace = Undefined
  /\ callsitesPc = "idle"
  /\ callsitesCall = NoCallsitesCall
  /\ parentLogger = NewLogger(IdleLogger.settings)
  /\ subLogger = NoLogger
  /\ formattedBy = NothingFormatted
  /\ staged = NotStaged
  /\ initDenoSource = "unnamed/part_001"
  /\ targetPath = <<"proj">>
  /\ targetExisted = FALSE
  /\ unreachable = {}
  /\ initDenoPc = 0
  /\ initDenoOutcome = "none"
  /\ fsDirs = {}
  /\ fsFiles = {}
  /\ events = << >>

NextUrl == ValidateUrl

SpecUrl == InitUrl /\ [][NextUrl]_vars

\* A version object and the next version of a release type
InitVersion ==
  /\ source = IdleLogger.source
  /\ settings = IdleLogger.settings
  /\ severityLevel = SeverityLevel[settings.severity]
  /\ transported = [n \in SeverityName |-> 0]
  /\ lastCall = NoCall
  /\ emitted = << >>
  /\ outcome = "none"
  /\ returned = BlankLogObject
  /\ calls = 0
  /\ template = NoTemplate
  /\ rendered = NotRendered
  /\ entry = IdleCli.entry
  /\ isMain = IdleCli.isMain
  /\ binDir = IdleCli.binDir
  /\ remote = IdleCli.remote
  /\ pc = "start"
  /\ abortCause = "none"
  /\ localPaths = << >>
  /\ paths = << >>
  /\ pending = {}
  /\ imported = NotImported
  /\ settled = << >>
  /\ subcommands = << >>
  /\ registered = << >>
  /\ parsed = FALSE
  /\ flag = NoFlag
  /\ declaration = Undefined
  /\ gitOptions = << >>
  /\ gitPc = "new"
  /\ gitBody = << >>
  /\ invoked = << >>
  /\ gitReturned = NothingReturned
  /\ history = << >>
  /\ gitCall = NoGitCall
  /\ environ = EmptyEnvironment
  /\ setup = NoSetup
  /\ envRead = NothingRead
  /\ urlValue = << >>
  /\ urlResult = NotValidated
  /\ versionObject \in VersionObjects
  /\ nextVersion = NoNextVersion
  /\ tryFn = IdleFunction
  /\ tryFallback = << >>
  /\ tryOutcome = NotTried
  /\ callsitesSource = "tools/callsites.ts"
  /\ prepareStackTrace = Undefined
  /\ savedPrepareStackTrace = Undefined
  /\ callsitesPc = "idle"
  /\ callsitesCall = NoCallsitesCall
  /\ parentLogger = NewLogger(IdleLogger.settings)
  /\ subLogger = NoLogger
  /\ formattedBy = NothingFormatted
  /\ staged = NotStaged
  /\ initDenoSource = "unnamed/part_001"
  /\ targetPath = <<"proj">>
  /\ targetExisted = FALSE
  /\ unreachable = {}
  /\ initDenoPc = 0
  /\ initDenoOutcome = "none"
  /\ fsDirs = {}
  /\ fsFiles = {}
  /\ events = << >>

NextVersion == CallGetNextVersion

SpecVersion == InitVersion /\ [][NextVersion]_vars

\* tryCatch(fn, fallback) for a function and a fallback
InitTry ==
  /\ source = IdleLogger.source
  /\ settings = IdleLogger.settings
  /\ severityLevel = SeverityLevel[settings.severity]
  /\ transported = [n \in SeverityName |-> 0]
  /\ lastCall = NoCall
  /\ emitted = << >>
  /\ outcome = "none"
  /\ returned = BlankLogObject
  /\ calls = 0
  /\ template = NoTemplate
  /\ rendered = NotRendered
  /\ entry = IdleCli.entry
  /\ isMain = IdleCli.isMain
  /\ binDir = IdleCli.binDir
  /\ remote = IdleCli.remote
  /\ pc = "start"
  /\ abortCause = "none"
  /\ localPaths = << >>
  /\ paths = << >>
  /\ pending = {}
  /\ imported = NotImported
  /\ settled = << >>
  /\ subcommands = << >>
  /\ registered = << >>
  /\ parsed = FALSE
  /\ flag = NoFlag
  /\ declaration = Undefined
  /\ gitOptions = << >>
  /\ gitPc = "new"
  /\ gitBody = << >>
  /\ invoked = << >>
  /\ gitReturned = NothingReturned
  /\ history = << >>
  /\ gitCall = NoGitCall
  /\ environ = EmptyEnvironment
  /\ setup = NoSetup
  /\ envRead = NothingRead
  /\ urlValue = << >>
  /\ urlResult = NotValidated
  /\ versionObject = NoVersionObject
  /\ nextVersion = NoNextVersion
  /\ tryFn \in Functions
  /\ tryFallback \in PathLists
  /\ tryOutcome = NotTried
  /\ callsitesSource = "tools/callsites.ts"
  /\ prepareStackTrace = Undefined
  /\ savedPrepareStackTrace = Undefined
  /\ callsitesPc = "idle"
  /\ callsitesCall = NoCallsitesCall
  /\ parentLogger = NewLogger(IdleLogger.settings)
  /\ subLogger = NoLogger
  /\ formattedBy = NothingFormatted
  /\ staged = NotStaged
  /\ initDenoSource = "unnamed/part_001"
  /\ targetPath = <<"proj">>
  /\ targetExisted = FALSE
  /\ unreachable = {}
  /\ initDenoPc = 0
  /\ initDenoOutcome = "none"
  /\ fsDirs = {}
  /\ fsFiles = {}
  /\ events = << >>

NextTry == CallTryCatch

SpecTry == InitTry /\ [][NextTry]_vars

\* Calls of callsites, by the program and by log calls, and assignments of the hook
InitCallsites ==
  /\ source = IdleLogger.source
  /\ settings = IdleLogger.settings
  /\ severityLevel = SeverityLevel[settings.severity]
  /\ transported = [n \in SeverityName |-> 0]
  /\ lastCall = NoCall
  /\ emitted = << >>
  /\ outcome = "none"
  /\ returned = BlankLogObject
  /\ calls = 0
  /\ template = NoTemplate
  /\ rendered = NotRendered
  /\ entry = IdleCli.entry
  /\ isMain = IdleCli.isMain
  /\ binDir = IdleCli.binDir
  /\ remote = IdleCli.remote
  /\ pc = "start"
  /\ abortCause = "none"
  /\ localPaths = << >>
  /\ paths = << >>
  /\ pending = {}
  /\ imported = NotImported
  /\ settled = << >>
  /\ subcommands = << >>
  /\ registered = << >>
  /\ parsed = FALSE
  /\ flag = NoFlag
  /\ declaration = Undefined
  /\ gitOptions = << >>
  /\ gitPc = "new"
  /\ gitBody = << >>
  /\ invoked = << >>
  /\ gitReturned = NothingReturned
  /\ history = << >>
  /\ gitCall = NoGitCall
  /\ environ = EmptyEnvironment
  /\ setup = NoSetup
  /\ envRead = NothingRead
  /\ urlValue = << >>
  /\ urlResult = NotValidated
  /\ versionObject = NoVersionObject
  /\ nextVersion = NoNextVersion
  /\ tryFn = IdleFunction
  /\ tryFallback = << >>
  /\ tryOutcome = NotTried
  /\ callsitesSource \in CallsitesSources
  /\ prepareStackTrace \in UserHooks
  /\ savedPrepareStackTrace = Undefined
  /\ callsitesPc = "idle"
  /\ callsitesCall = NoCallsitesCall
  /\ parentLogger = NewLogger(IdleLogger.settings)
  /\ subLogger = NoLogger
  /\ formattedBy = NothingFormatted
  /\ staged = NotStaged
  /\ initDenoSource = "unnamed/part_001"
  /\ targetPath = <<"proj">>
  /\ targetExisted = FALSE
  /\ unreachable = {}
  /\ initDenoPc = 0
  /\ initDenoOutcome = "none"
  /\ fsDirs = {}
  /\ fsFiles = {}
  /\ events = << >>

NextCallsites == AssignHook \/ SaveHook \/ InstallHook \/ ReadStack \/ RestoreHook

SpecCallsites == InitCallsites /\ [][NextCallsites]_vars

\* A logger, a sub-logger of it, and a log call on either
InitSubLogger ==
  /\ source = IdleLogger.source
  /\ settings = IdleLogger.settings
  /\ severityLevel = SeverityLevel[settings.severity]
  /\ transported = [n \in SeverityName |-> 0]
  /\ lastCall = NoCall
  /\ emitted = << >>
  /\ outcome = "none"
  /\ returned = BlankLogObject
  /\ calls = 0
  /\ template = NoTemplate
  /\ rendered = NotRendered
  /\ entry = IdleCli.entry
  /\ isMain = IdleCli.isMain
  /\ binDir = IdleCli.binDir
  /\ remote = IdleCli.remote
  /\ pc = "start"
  /\ abortCause = "none"
  /\ localPaths = << >>
  /\ paths = << >>
  /\ pending = {}
  /\ imported = NotImported
  /\ settled = << >>
  /\ subcommands = << >>
  /\ registered = << >>
  /\ parsed = FALSE
  /\ flag = NoFlag
  /\ declaration = Undefined
  /\ gitOptions = << >>
  /\ gitPc = "new"
  /\ gitBody = << >>
  /\ invoked = << >>
  /\ gitReturned = NothingReturned
  /\ history = << >>
  /\ gitCall = NoGitCall
  /\ environ = EmptyEnvironment
  /\ setup = NoSetup
  /\ envRead = NothingRead
  /\ urlValue = << >>
  /\ urlResult = NotValidated
  /\ versionObject = NoVersionObject
  /\ nextVersion = NoNextVersion
  /\ tryFn = IdleFunction
  /\ tryFallback = << >>
  /\ tryOutcome = NotTried
  /\ callsitesSource = "tools/callsites.ts"
  /\ prepareStackTrace = Undefined
  /\ savedPrepareStackTrace = Undefined
  /\ callsitesPc = "idle"
  /\ callsitesCall = NoCallsitesCall
  /\ parentLogger \in { NewLogger(st) : st \in SettingsInputs }
  /\ subLogger = NoLogger
  /\ formattedBy = NothingFormatted
  /\ staged = NotStaged
  /\ initDenoSource = "unnamed/part_001"
  /\ targetPath = <<"proj">>
  /\ targetExisted = FALSE
  /\ unreachable = {}
  /\ initDenoPc = 0
  /\ initDenoOutcome = "none"
  /\ fsDirs = {}
  /\ fsFiles = {}
  /\ events = << >>

NextSubLogger == CallGetSubLogger \/ FormatRecord

SpecSubLogger == InitSubLogger /\ [][NextSubLogger]_vars

\* A template, partialRender on it, and render on the template that returned
InitStaged ==
  /\ source = IdleLogger.source
  /\ settings = IdleLogger.settings
  /\ severityLevel = SeverityLevel[settings.severity]
  /\ transported = [n \in SeverityName |-> 0]
  /\ lastCall = NoCall
  /\ emitted = << >>
  /\ outcome = "none"
  /\ returned = BlankLogObject
  /\ calls = 0
  /\ template \in { NewTemplate(t, d) : t \in StagedTexts, d \in Defaults }
  /\ rendered = NotRendered
  /\ entry = IdleCli.entry
  /\ isMain = IdleCli.isMain
  /\ binDir = IdleCli.binDir
  /\ remote = IdleCli.remote
  /\ pc = "start"
  /\ abortCause = "none"
  /\ localPaths = << >>
  /\ paths = << >>
  /\ pending = {}
  /\ imported = NotImported
  /\ settled = << >>
  /\ subcommands = << >>
  /\ registered = << >>
  /\ parsed = FALSE
  /\ flag = NoFlag
  /\ declaration = Undefined
  /\ gitOptions = << >>
  /\ gitPc = "new"
  /\ gitBody = << >>
  /\ invoked = << >>
  /\ gitReturned = NothingReturned
  /\ history = << >>
  /\ gitCall = NoGitCall
  /\ environ = EmptyEnvironment
  /\ setup = NoSetup
  /\ envRead = NothingRead
  /\ urlValue = << >>
  /\ urlResult = NotValidated
  /\ versionObject = NoVersionObject
  /\ nextVersion = NoNextVersion
  /\ tryFn = IdleFunction
  /\ tryFallback = << >>
  /\ tryOutcome = NotTried
  /\ callsitesSource = "tools/callsites.ts"
  /\ prepareStackTrace = Undefined
  /\ savedPrepareStackTrace = Undefined
  /\ callsitesPc = "idle"
  /\ callsitesCall = NoCallsitesCall
  /\ parentLogger = NewLogger(IdleLogger.settings)
  /\ subLogger = NoLogger
  /\ formattedBy = NothingFormatted
  /\ staged = NotStaged
  /\ initDenoSource = "unnamed/part_001"
  /\ targetPath = <<"proj">>
  /\ targetExisted = FALSE
  /\ unreachable = {}
  /\ initDenoPc = 0
  /\ initDenoOutcome = "none"
  /\ fsDirs = {}
  /\ fsFiles = {}
  /\ events = << >>

NextStaged == partialRender \/ renderCreated

SpecStaged == InitStaged /\ [][NextStaged]_vars

\* init-deno is run once, on a target that exists or not, with a network that fails or not
InitInitDeno ==
  /\ source = IdleLogger.source
  /\ settings = IdleLogger.settings
  /\ severityLevel = SeverityLevel[settings.severity]
  /\ transported = [n \in SeverityName |-> 0]
  /\ lastCall = NoCall
  /\ emitted = << >>
  /\ outcome = "none"
  /\ returned = BlankLogObject
  /\ calls = 0
  /\ template = NoTemplate
  /\ rendered = NotRendered
  /\ entry = IdleCli.entry
  /\ isMain = IdleCli.isMain
  /\ binDir = IdleCli.binDir
  /\ remote = IdleCli.remote
  /\ pc = "start"
  /\ abortCause = "none"
  /\ localPaths = << >>
  /\ paths = << >>
  /\ pending = {}
  /\ imported = NotImported
  /\ settled = << >>
  /\ subcommands = << >>
  /\ registered = << >>
  /\ parsed = FALSE
  /\ flag = NoFlag
  /\ declaration = Undefined
  /\ gitOptions = << >>
  /\ gitPc = "new"
  /\ gitBody = << >>
  /\ invoked = << >>
  /\ gitReturned = NothingReturned
  /\ history = << >>
  /\ gitCall = NoGitCall
  /\ environ = EmptyEnvironment
  /\ setup = NoSetup
  /\ envRead = NothingRead
  /\ urlValue = << >>
  /\ urlResult = NotValidated
  /\ versionObject = NoVersionObject
  /\ nextVersion = NoNextVersion
  /\ tryFn = IdleFunction
  /\ tryFallback = << >>
  /\ tryOutcome = NotTried
  /\ callsitesSource = "tools/callsites.ts"
  /\ prepareStackTrace = Undefined
  /\ savedPrepareStackTrace = Undefined
  /\ callsitesPc = "idle"
  /\ callsitesCall = NoCallsitesCall
  /\ parentLogger = NewLogger(IdleLogger.settings)
  /\ subLogger = NoLogger
  /\ formattedBy = NothingFormatted
  /\ staged = NotStaged
  /\ initDenoSource \in InitDenoSources
  /\ targetPath \in TargetPaths
  /\ targetExisted \in BOOLEAN
  /\ unreachable \in SUBSET RemoteFiles
  /\ initDenoPc = 0
  /\ initDenoOutcome = "none"
  /\ fsDirs = IF targetExisted THEN {<<"proj">>} ELSE {}
  /\ fsFiles = {}
  /\ events = << >>

NextInitDeno == StartInitDeno \/ FetchFile \/ MakeDirectory \/ WriteTextFile \/ LogCreated

SpecInitDeno == InitInitDeno /\ [][NextInitDeno]_vars

(***************************************************************************)
(* Claims about the logger.                                                *)
(***************************************************************************)
CallMade == lastCall.method # "none"

\* The configured severity is above the severity of the last call.
CallBelowSeverity == CallMade /\ SeverityLevel[settings.severity] > lastCall.severity

\* The call passes the gate: not SILENT, and at or above the configured level.
CallPassesGate ==
  /\ CallMade
  /\ settings.severity # "SILENT"
  /\ lastCall.severity >= SeverityLevel[settings.severity]

FullRecord ==
  /\ returned.message = lastCall.options.message
  /\ returned.data = [defined |-> TRUE, items |-> lastCall.options.args]
  /\ returned.log_level = lastCall.level
  /\ returned.log_logger = LoggerName(settings)
  /\ returned.service_environment = settings.environment
  /\ returned.service_name = settings.application
  /\ returned.service_version = settings.version
  /\ returned.service_id = settings.id

\* C1: a call below the configured severity still returns a full record
\* (message, data, log.level, log.logger, service fields) and invokes no
\* transport.
C1_GatedCallReturnsFullRecord ==
  CallBelowSeverity => (outcome = "returned" /\ emitted = << >> /\ FullRecord)

\* C2: the output of a call reaches a transport if and only if the logger is
\* not SILENT and the call's level is at least the configured level; a SILENT
\* logger never invokes a transport.
C2_TransportIffPassesGate ==
  /\ CallMade => ((emitted # << >>) <=> CallPassesGate)
  /\ settings.severity = "SILENT" => \A n \in SeverityName : transported[n] = 0

\* C3: a call that emits invokes exactly one transport, once: the one of the
\* call's own severity, with the formatted record; no call invokes more than
\* one, and a call that passes the gate and returns has invoked one.
C3_OneTransportPerEmittedCall ==
  /\ Len(emitted) <= 1
  /\ (CallPassesGate /\ outcome = "returned") => Len(emitted) = 1
  /\ \A i \in 1..Len(emitted) :
       /\ emitted[i].transport =
            (CASE lastCall.method = "debug" -> "DEBUG"
               [] lastCall.method \in {"info", "http"} -> "INFORMATIONAL"
               [] lastCall.method = "warn" -> "WARNING"
               [] lastCall.method = "error" -> "ERROR")
       /\ emitted[i].formatted.log = returned
       /\ emitted[i].formatted.mode = settings.mode
  /\ transported["SILENT"] = 0

C3_Witness ==
  /\ CallPassesGate /\ outcome = "returned" /\ Len(emitted) = 1
  /\ lastCall.method = "warn" /\ settings.severity = "DEBUG"
  /\ transported["WARNING"] = 1 /\ transported["ERROR"] = 1

(***************************************************************************)
(* Claims about the template.                                              *)
(***************************************************************************)
\* A `{...}` placeholder occurs in s: "{", at least one character, "}".
HasPlaceholder(s) ==
  \E i \in 1..Len(s), j \in 1..Len(s) : j >= i + 2 /\ s[i] = "{" /\ s[j] = "}"

\* The value a key is to be replaced with: the supplied one, else the default.
MergedValue(defaults, supplied, k) ==
  IF HasOwn(k, supplied) THEN ValueOf(supplied, k) ELSE ValueOf(defaults, k)

\* The merged keys in replacement order, each with its merged value.
Merged(defaults, supplied) ==
  LET order == [i \in 1..Len(defaults) |-> defaults[i].key]
                 \o [i \in 1..Len(SelectPairs(supplied, KeysOf(supplied) \ KeysOf(defaults)))
                       |-> SelectPairs(supplied, KeysOf(supplied) \ KeysOf(defaults))[i].key]
  IN  [i \in 1..Len(order) |-> Pair(order[i], MergedValue(defaults, supplied, order[i]))]

\* Every occurrence of pat in s replaced by the text v itself.
RECURSIVE ReplaceEvery(_, _, _)
ReplaceEvery(s, pat, v) ==
  IF s = << >> THEN << >>
  ELSE IF OccursAt(s, pat, 1)
    THEN v \o ReplaceEvery(From(s, Len(pat) + 1), pat, v)
  ELSE <<Head(s)>> \o ReplaceEvery(Tail(s), pat, v)

RECURSIVE ReplaceEach(_, _)
ReplaceEach(s, rep) ==
  IF rep = << >> THEN s
  ELSE ReplaceEach(ReplaceEvery(s, Placeholder(Head(rep).key), Head(rep).value),
                   Tail(rep))

\* C4: render merges the defaults with the supplied replacements (supplied
\* wins), replaces every occurrence of each `{key}` with its value, throws
\* when a placeholder is left, and returns a string without placeholders.
C4_RenderReplacesWithValues ==
  rendered.kind = "render" =>
    LET expected ==
          trim(ReplaceEach(template.text,
                           Merged(template.replacements, rendered.replacements)))
    IN  /\ rendered.threw <=> HasPlaceholder(expected)
        /\ ~rendered.threw =>
             (rendered.result = expected /\ ~HasPlaceholder(rendered.result))

\* C4, for replacement values without "$": the part of the claim the code
\* meets.
C4_HoldsWithoutDollar ==
  (rendered.kind = "render"
     /\ \A i \in 1..Len(rendered.replacements) :
          rendered.replacements[i].value \in PlainValues) =>
    C4_RenderReplacesWithValues

\* The placeholders of s, left to right: each starts at a "{" that is outside
\* the placeholder before it, and ends at the first "}" at least two
\* characters later.
IsPlaceholderList(s, list) ==
  \E starts \in [1..Len(list) -> 1..Len(s)] :
    /\ \A n \in 1..Len(list) :
         /\ OccursAt(s, list[n], starts[n])
         /\ Len(list[n]) >= 3
         /\ Head(list[n]) = "{"
         /\ list[n][Len(list[n])] = "}"
         /\ \A k \in 3..(Len(list[n]) - 1) : list[n][k] # "}"
         /\ n > 1 => starts[n] >= starts[n - 1] + Len(list[n - 1])
    /\ \A i \in 1..Len(s) :
         (s[i] = "{" /\ \E j \in (i + 2)..Len(s) : s[j] = "}") =>
           \E n \in 1..Len(list) :
             starts[n] <= i /\ i < starts[n] + Len(list[n])

\* C5 (state part): a failed render's error carries the template text, the
\* partially substituted result and exactly the placeholders left in it.
C5_CauseOfFailedRender ==
  (rendered.kind = "render" /\ rendered.threw) =>
    /\ rendered.cause.template = template.text
    /\ rendered.cause.result =
         trim(Substitute(template.text,
                         deepMerge(template.replacements, rendered.replacements)))
    /\ rendered.cause.missingReplacements # << >>
    /\ IsPlaceholderList(rendered.cause.result, rendered.cause.missingReplacements)

\* C5: the cause of a failed render is as above, and no render changes the
\* template object (its text and defaults).
C5_FailedRenderCarriesCause ==
  [](C5_CauseOfFailedRender) /\ [][template' = template]_vars

C5_Witness ==
  /\ rendered.kind = "render" /\ rendered.threw
  /\ Len(rendered.cause.missingReplacements) = 2
  /\ rendered.cause.result # template.text
  /\ rendered.replacements # << >>
  /\ template.replacements # << >>

\* The names whose placeholder `{name}` occurs in s: a name is non-empty and
\* holds no brace.
NamesIn(s) ==
  { SubSeq(s, q[1] + 1, q[2] - 1) :
      q \in { p \in (1..Len(s)) \X (1..Len(s)) :
                /\ p[2] >= p[1] + 2
                /\ s[p[1]] = "{"
                /\ s[p[2]] = "}"
                /\ \A k \in (p[1] + 1)..(p[2] - 1) : s[k] \notin {"{", "}"} } }

\* C6: partialRender(R) substitutes only the keys of R (no default is
\* applied), never throws, and returns a new Template whose text still
\* contains every placeholder not in R and whose defaults are the original
\* defaults restricted to the keys not in R.
C6_PartialRenderKeepsTheRest ==
  rendered.kind = "partialRender" =>
    /\ ~rendered.threw
    /\ \A n \in NamesIn(template.text) :
         ~HasOwn(n, rendered.replacements) =>
           Contains(rendered.created.text, Placeholder(n))
    /\ KeysOf(rendered.created.replacements)
         = KeysOf(template.replacements) \ KeysOf(rendered.replacements)
    /\ \A k \in KeysOf(rendered.created.replacements) :
         ValueOf(rendered.created.replacements, k) = ValueOf(template.replacements, k)

\* C6 without its last part: what partialRender does to the text.
C6_TextKeepsOtherPlaceholders ==
  rendered.kind = "partialRender" =>
    /\ ~rendered.threw
    /\ \A n \in NamesIn(template.text) :
         ~HasOwn(n, rendered.replacements) =>
           Contains(rendered.created.text, Placeholder(n))

(***************************************************************************)
(* Claims about the command runner.                                        *)
(***************************************************************************)
\* The exported values of all imported modules, in path order.
Exported == Flat([i \in 1..Len(paths) |-> imported[i]])

\* A non-null object that has both a name and a description field.
DescriptorShaped(v) == v.kind = "object" /\ v.hasName /\ v.hasDescription

Survivors == SelectSeq(Exported, DescriptorShaped)

Adapted == pc \in {"adapted", "registered", "done"}

\* C7: discovery keeps exactly the non-null objects with a name and a
\* description; dropping the others raises nothing, and every kept value is
\* adapted into exactly one command (so adapting a kept value never fails).
C7_KeptIffDescriptorShaped ==
  /\ abortCause # "adapt"
  /\ Adapted =>
       /\ Len(subcommands) = Len(Survivors)
       /\ \A i \in 1..Len(subcommands) :
            /\ subcommands[i].name = Survivors[i].name
            /\ subcommands[i].action = Survivors[i].action

\* What C7 says of well-formed exports: the filter alone.
C7_FilterKeepsDescriptorShaped ==
  Adapted =>
    /\ Len(subcommands) = Len(Survivors)
    /\ \A i \in 1..Len(subcommands) :
         /\ subcommands[i].name = Survivors[i].name
         /\ subcommands[i].action = Survivors[i].action

\* C8: a failing listing of the scripts directory gives an empty list of
\* local paths and never aborts the runner; start-up goes on to registration
\* and parsing.
C8_ListingFailureFallsBack ==
  ~binDir.ok =>
    /\ abortCause # "listing"
    /\ pc # "start" => localPaths = << >>
    /\ pc = "done" => parsed = isMain

RegisteredNames == { registered[i].name : i \in 1..Len(registered) }

SurvivorNames == { Survivors[i].name : i \in 1..Len(Survivors) }

Abbreviated == flag.abbreviation # Undefined /\ flag.abbreviation # ""

Switch ==
  IF Abbreviated THEN "-" \o flag.abbreviation \o ", --" \o flag.name
  ELSE "--" \o flag.name

\* C10: the declaration is the switch (`-a, --name` or `--name`), alone for
\* a boolean flag, and followed by ` <name:type>` for every other type.
C10_FourDeclarations ==
  declaration # Undefined =>
    IF flag.type = "boolean"
      THEN declaration = Switch
      ELSE declaration = Switch \o " <" \o flag.name \o ":" \o flag.type \o ">"

C10_Witness ==
  /\ declaration = "-f, --out <out:file>"
  /\ flag.type = "file"

(***************************************************************************)
(* Claims about the positional arguments of an adapted command.            *)
(***************************************************************************)
\* `<name:type>` of every argument, in declaration order.
RECURSIVE DeclaredInOrder(_)
DeclaredInOrder(items) ==
  IF items = << >> THEN ""
  ELSE IF Tail(items) = << >>
    THEN "<" \o Head(items).name \o ":" \o Head(items).type \o ">"
  ELSE "<" \o Head(items).name \o ":" \o Head(items).type \o "> "
         \o DeclaredInOrder(Tail(items))

\* C11: the command adapted from a descriptor with 1, 2 or 3 positional
\* arguments declares every one of them as `<name:type>`, in declaration order.
C11_EveryArgumentDeclared ==
  Adapted =>
    \A i \in 1..Len(subcommands) :
      (/\ i <= Len(Survivors)
       /\ Survivors[i].arguments.given
       /\ Len(Survivors[i].arguments.items) \in 1..3)
        => subcommands[i].argsDefinition = DeclaredInOrder(Survivors[i].arguments.items)

\* What C11 says of a descriptor with one argument.
C11_SingleArgumentDeclared ==
  Adapted =>
    \A i \in 1..Len(subcommands) :
      (/\ i <= Len(Survivors)
       /\ Survivors[i].arguments.given
       /\ Len(Survivors[i].arguments.items) = 1)
        => subcommands[i].argsDefinition = DeclaredInOrder(Survivors[i].arguments.items)

(***************************************************************************)
(* Claims about the Git wrapper.                                           *)
(***************************************************************************)
\* The default options with a value, as given to new Git.
GivenDefaults == SelectSeq(gitOptions, LAMBDA o : o.value # Undefined)

OperationsCarryDefaults ==
  \A i \in 1..Len(invoked) :
    /\ invoked[i].command = "git"
    /\ invoked[i].options = GivenDefaults

\* C12: new Git(options) succeeds for any default options, and every
\* operation runs git with those defaults together with its argument list.
C12_BoundToDefaultOptions ==
  /\ gitPc # "threw"
  /\ OperationsCarryDefaults

\* What C12 says of the operations alone.
C12_OperationsCarryDefaults == OperationsCarryDefaults

\* The words of a camelCase key: a hyphen before every capital, all in lower
\* case.
RECURSIVE Hyphenated(_)
Hyphenated(key) ==
  IF key = << >> THEN ""
  ELSE IF IsUpper(Head(key)) THEN "-" \o LowerChar(Head(key)) \o Hyphenated(Tail(key))
  ELSE Head(key) \o Hyphenated(Tail(key))

\* The elements of one flag: bare for a value that is no string, else
\* `--name=value` (joined) or `--name`, `value`.
FlagElements(f, joined) ==
  IF f.value.type # "string" THEN <<"--" \o Hyphenated(f.key)>>
  ELSE IF joined THEN <<"--" \o Hyphenated(f.key) \o "=" \o f.value.value>>
  ELSE <<"--" \o Hyphenated(f.key), f.value.value>>

RECURSIVE FlagList(_, _)
FlagList(flags, joined) ==
  IF flags = << >> THEN << >>
  ELSE FlagElements(Head(flags), joined) \o FlagList(Tail(flags), joined)

\* The parts of a revision range: its pieces that are no space.
RangeParts(range) == SelectSeq(range, LAMBDA part : part # " ")

\* The argument list an operation is to run git with.
ArgumentList_(call) ==
  CASE call.op = "add" -> <<"add">> \o call.list
    [] call.op = "commit" -> <<"commit", "-m", call.text>> \o FlagList(call.flags, TRUE)
    [] call.op = "config" ->
         IF call.value = Undefined THEN <<"config", call.text>>
         ELSE <<"config", call.text, call.value>>
    [] call.op = "init" -> <<"init">> \o FlagList(call.flags, FALSE)
    [] call.op = "log" ->
         (<<"log">> \o FlagList(call.flags, TRUE)) \o RangeParts(call.range)
           \o <<PrettyFormat>>

\* C13: every operation runs exactly one git subprocess, with the argument
\* list of the operation, and returns the captured standard output.
C13_OneSubprocessPerOperation ==
  gitCall.op # "none" =>
    /\ Len(invoked) = 1
    /\ invoked[1].args = ArgumentList_(gitCall)
    /\ gitReturned.kind = "text"

\* What C13 says when every value given is a non-empty string, and with the
\* records log returns in place of the text.
C13_HoldsForNonEmptyValues ==
  (/\ gitCall.op # "none"
   /\ gitCall.value # ""
   /\ \A i \in 1..Len(gitCall.flags) : gitCall.flags[i].value.value # "")
    => /\ Len(invoked) = 1
       /\ invoked[1].args = ArgumentList_(gitCall)
       /\ gitCall.op # "log" => gitReturned.kind = "text"


\* Timestamps that are a decimal numeral, with their value.
Numerals == {"86400", "1970"}

NumeralValue(timestamp) == IF timestamp = "86400" THEN 86400 ELSE 1970

\* Timestamps that are a date string, with their time in milliseconds.
DateStrings == {"1970-01-02T00:00:00Z", "Fri Jan 2 00:00:00 1970 +0000"}

DateStringTime(timestamp) == 86400000

LogCalled == gitCall.op = "log"

AllDated ==
  \A i \in 1..Len(history) : history[i].timestamp \in Numerals \cup DateStrings

\* The record of a commit: its fields, the subject with emoji as codes.
RecordOf(c, r) ==
  /\ r.hash = c.hash
  /\ r.id = c.id
  /\ r.author = c.author
  /\ r.ref = c.ref
  /\ r.subject = [i \in 1..Len(c.subject) |->
                    IF c.subject[i] = Sparkles THEN ":sparkles:" ELSE c.subject[i]]

\* C14: log returns one record per commit of the output, in output order,
\* each with the commit's hash, id, author, subject and ref, whatever the
\* subject is.
C14_OneRecordPerCommit ==
  (LogCalled /\ AllDated) =>
    /\ gitReturned.kind = "commits"
    /\ Len(gitReturned.commits) = Len(history)
    /\ \A i \in 1..Len(history) : RecordOf(history[i], gitReturned.commits[i])

PlainSubjects ==
  \A i \in 1..Len(history) :
    \A k \in 1..Len(history[i].subject) :
      history[i].subject[k] # Quote /\ history[i].subject[k] # Delimiter

\* What C14 says of subjects without a double quote.
C14_HoldsForPlainSubjects ==
  (LogCalled /\ AllDated /\ PlainSubjects) =>
    /\ gitReturned.kind = "commits"
    /\ Len(gitReturned.commits) = Len(history)
    /\ \A i \in 1..Len(history) : RecordOf(history[i], gitReturned.commits[i])

\* The date of a timestamp: Unix seconds for a numeral, the parsed date for a
\* date string, none for anything else.
DateOf(timestamp) ==
  IF timestamp \in Numerals THEN NumeralValue(timestamp) * 1000
  ELSE IF timestamp \in DateStrings THEN DateStringTime(timestamp)
  ELSE InvalidDate

\* C15: a numeric timestamp is Unix seconds, any other is parsed as a date
\* string, and a timestamp that is neither makes validation fail.
C15_TimestampAsSecondsOrDate ==
  (LogCalled /\ PlainSubjects) =>
    IF \E i \in 1..Len(history) : DateOf(history[i].timestamp) = InvalidDate
      THEN gitReturned.kind = "threw"
      ELSE /\ gitReturned.kind = "commits"
           /\ Len(gitReturned.commits) = Len(history)
           /\ \A i \in 1..Len(history) :
                gitReturned.commits[i].timestamp = DateOf(history[i].timestamp)

\* What C15 says of timestamps that are not empty.
C15_HoldsForNonEmptyTimestamps ==
  (/\ LogCalled
   /\ PlainSubjects
   /\ \A i \in 1..Len(history) : history[i].timestamp # "") =>
    IF \E i \in 1..Len(history) : DateOf(history[i].timestamp) = InvalidDate
      THEN gitReturned.kind = "threw"
      ELSE /\ gitReturned.kind = "commits"
           /\ Len(gitReturned.commits) = Len(history)
           /\ \A i \in 1..Len(history) :
                gitReturned.commits[i].timestamp = DateOf(history[i].timestamp)

FlagsCalled == gitCall.op \in {"commit", "init", "log"}

\* The elements of the argument list that come from the flags.
FlagArguments ==
  LET args == invoked[Len(invoked)].args
      first == IF gitCall.op = "commit" THEN 4 ELSE 2
      last == IF gitCall.op = "log"
                THEN (Len(args) - 1) - Len(RangeParts(gitCall.range))
                ELSE Len(args)
  IN  SubSeq(args, first, last)

\* C16: each flag key becomes `--` and its words in lower case joined by
\* hyphens; a value that is no string gives the bare flag, a string gives
\* `--name=value` for commit and log and `--name`, `value` for init; one
\* group per key, in key order.
C16_FlagsAsCliSyntax ==
  FlagsCalled => FlagArguments = FlagList(gitCall.flags, gitCall.op # "init")

\* What C16 says of string values that are not empty.
C16_HoldsForNonEmptyValues ==
  (/\ FlagsCalled
   /\ \A i \in 1..Len(gitCall.flags) : gitCall.flags[i].value.value # "")
    => FlagArguments = FlagList(gitCall.flags, gitCall.op # "init")

(***************************************************************************)
(* Claims about the record of a log call.                                  *)
(***************************************************************************)
EmittedCall == CallPassesGate /\ outcome = "returned"

\* C17: a record constructed with an error carries the error's message,
\* code, id and name (as error.type) verbatim, undefined where the error
\* defines none; a record constructed without an error has no error field.
C17_ErrorFieldsVerbatim ==
  EmittedCall =>
    IF lastCall.options.error.given
      THEN /\ returned.error_message = lastCall.options.error.message
           /\ returned.error_code = lastCall.options.error.code
           /\ returned.error_id = lastCall.options.error.id
           /\ returned.error_type = lastCall.options.error.name
      ELSE /\ returned.error_message = Undefined
           /\ returned.error_code = Undefined
           /\ returned.error_id = Undefined
           /\ returned.error_type = Undefined
           /\ returned.error_stack_trace = Undefined

\* What C17 says of the logger of tools/logger.ts.
C17_HoldsInToolsLogger ==
  (EmittedCall /\ source = "tools/logger.ts") =>
    IF lastCall.options.error.given
      THEN /\ returned.error_message = lastCall.options.error.message
           /\ returned.error_code = lastCall.options.error.code
           /\ returned.error_id = lastCall.options.error.id
           /\ returned.error_type = lastCall.options.error.name
      ELSE /\ returned.error_message = Undefined
           /\ returned.error_code = Undefined
           /\ returned.error_id = Undefined
           /\ returned.error_type = Undefined
           /\ returned.error_stack_trace = Undefined


\* The record of the last call was formatted and handed to a transport
\* before the call returned.
FormattedAndHandedOver ==
  /\ outcome = "returned"
  /\ Len(emitted) = 1
  /\ emitted[1].formatted = Format(settings, returned)

\* A call leaves the logger as it was and constructs one more record.
LoggerUnchanged ==
  /\ settings' = settings
  /\ severityLevel' = severityLevel
  /\ calls' = calls + 1

\* C18: every log call that is to be emitted constructs a fresh record,
\* formats it and hands it to the transport before it returns; no call
\* changes the logger's settings or severity level.
C18_FreshRecordPerCall ==
  [](CallPassesGate => FormattedAndHandedOver) /\ [][LoggerUnchanged]_vars

\* What C18 says of the logger itself: its settings and severity level stay.
C18_LoggerUnchanged == [][LoggerUnchanged]_vars

\* What C18 says of the calls that return.
C18_HandedOverWhenReturned ==
  (CallPassesGate /\ outcome = "returned") => FormattedAndHandedOver

(***************************************************************************)
(* Claims about the environment.                                           *)
(***************************************************************************)
\* A value fits a schema: a string of the minimal length, or a listed value.
Fits(schema, value) ==
  /\ value # Undefined
  /\ (schema.type = "string" => Len(value) >= schema.minLength)
  /\ (schema.type = "enum" => value \in schema.values)

SomeImportFails == \E i \in 1..Len(paths) : ~ModuleAt(paths[i]).ok

\* C20: when the import of a discovered file fails, the failure is not
\* caught: the start-up code never gets past the wave of imports, no
\* subcommand is registered, those of the imported modules included, and
\* the arguments are never parsed.
C20_FailedImportAbortsStartup ==
  /\ (pc \notin {"start", "importing"} /\ SomeImportFails) =>
       /\ pc = "aborted"
       /\ abortCause = "import"
  /\ abortCause = "import" =>
       /\ SomeImportFails
       /\ subcommands = << >>
       /\ registered = << >>
       /\ ~parsed

\* The wave was rejected after a module with a descriptor had been imported.
C20_Witness ==
  /\ abortCause = "import"
  /\ \E i \in 1..Len(paths) : Filter(imported[i]) # << >>
  /\ registered = << >>
  /\ ~parsed

(***************************************************************************)
(* Claims about isHttpUrl.                                                 *)
(***************************************************************************)
HttpSchemes == { <<"h", "t", "t", "p">>, <<"h", "t", "t", "p", "s">> }

\* C21: isHttpUrl never throws; it returns true exactly for the strings
\* that parse as a URL of scheme http or https, and so false for URLs of
\* the schemes file and ftp and for strings that are not URLs.
C21_TrueExactlyForHttpUrls ==
  urlResult.called =>
    /\ ~urlResult.threw
    /\ urlResult.value <=>
         (~NewURL(urlValue).threw /\ NewURL(urlValue).protocol \in HttpSchemes)
    /\ (urlValue = <<"f", "i", "l", "e", ":", "/", "/", "a", ".", "b">>
          => ~urlResult.value)
    /\ (urlValue = <<"f", "t", "p", ":", "/", "/", "a", ".", "b">> => ~urlResult.value)
    /\ (urlValue = <<"a", ".", "b">> => ~urlResult.value)
    /\ (urlValue = <<"h", "t", "t", "p", "s", ":", "/", "/", "a", ".", "b">>
          => urlResult.value)

\* An http URL written in capitals was accepted.
C21_Witness ==
  /\ urlResult.called
  /\ urlValue = <<"H", "T", "T", "P", ":", "/", "/", "A", ".", "b", "/", "p">>
  /\ urlResult.value

(***************************************************************************)
(* Claims about the colour of the status code.                             *)
(***************************************************************************)
\* The theme of the class of a status code.
ClassTheme(status) ==
  IF status \in 100..199 THEN "Informational"
  ELSE IF status \in 200..299 THEN "Successful"
  ELSE IF status \in 300..399 THEN "Redirection"
  ELSE IF status \in 400..599 THEN "Error"
  ELSE "Default"

\* A pretty logger has handed over an http call that had a status code.
PrettyHttpEmitted ==
  /\ EmittedCall
  /\ settings.mode = "PRETTY"
  /\ lastCall.method = "http"
  /\ lastCall.options.response.statusCode # UndefinedNumber

\* C22: in pretty mode the status code of an http call is coloured with the
\* theme of its class, and with the default theme when it is of no class.
C22_StatusColoredByClass ==
  PrettyHttpEmitted =>
    emitted[1].formatted.template.statusColor =
      ClassTheme(lastCall.options.response.statusCode)

\* The same for every status code but 0.
C22_HoldsForNonZeroStatus ==
  (PrettyHttpEmitted /\ lastCall.options.response.statusCode # 0) =>
    emitted[1].formatted.template.statusColor =
      ClassTheme(lastCall.options.response.statusCode)

(***************************************************************************)
(* Claims about VersionObject.                                             *)
(***************************************************************************)
\* The text X.Y.Z.
Dotted(x, y, z) == Numeral(x) \o <<".">> \o Numeral(y) \o <<".">> \o Numeral(z)

\* The object is of a version X.Y.Z without a prerelease.
PlainVersion ==
  /\ versionObject.semver.prerelease = << >>
  /\ versionObject.version =
       Dotted(versionObject.semver.major, versionObject.semver.minor,
              versionObject.semver.patch)

\* The version that follows X.Y.Z for a release type.
Following(semver, type) ==
  CASE type = "patch" -> Dotted(semver.major, semver.minor, semver.patch + 1)
    [] type = "minor" -> Dotted(semver.major, semver.minor + 1, 0)
    [] type = "major" -> Dotted(semver.major + 1, 0, 0)

NextVersionAsClaimed ==
  (PlainVersion /\ nextVersion.type # "none") =>
    /\ nextVersion.byType = nextVersion.byMethod
    /\ nextVersion.byType.version = Following(versionObject.semver, nextVersion.type)
    /\ nextVersion.byType.tag = <<"v">> \o nextVersion.byType.version
    /\ parseVersion(nextVersion.byType.version).value = nextVersion.byType.semver

\* C23: for an object of version X.Y.Z without a prerelease,
\* getNextVersion(type) equals the method of the release type and yields the
\* object of version X.Y.(Z+1), X.(Y+1).0 or (X+1).0.0 whose tag is "v" and
\* its version; the object it is called on stays as it was.
C23_NextVersionByReleaseType ==
  /\ [] NextVersionAsClaimed
  /\ [][versionObject' = versionObject]_vars

\* The next minor version of 1.9.12 is 1.10.0.
C23_Witness ==
  /\ PlainVersion
  /\ versionObject.semver = SemVer(1, 9, 12, << >>)
  /\ nextVersion.type = "minor"
  /\ nextVersion.byType.version = <<"1", ".", "1", "0", ".", "0">>
  /\ nextVersion.byType.tag = <<"v", "1", ".", "1", "0", ".", "0">>

(***************************************************************************)
(* Claims about tryCatch.                                                  *)
(***************************************************************************)
\* C24: tryCatch(fn, fallback) calls fn once and never throws; it returns
\* what fn returned, and the fallback when fn threw.
C24_ValueOrFallback ==
  /\ tryOutcome.fnCalls <= 1
  /\ ~tryOutcome.threw
  /\ tryOutcome.returned =>
       /\ tryOutcome.fnCalls = 1
       /\ tryOutcome.value = IF tryFn.throws THEN tryFallback ELSE tryFn.value

\* The function threw and a fallback with a path in it was returned.
C24_Witness ==
  /\ tryOutcome.returned
  /\ tryFn.throws
  /\ tryFallback = <<"a.ts">>
  /\ tryOutcome.value = <<"a.ts">>

(***************************************************************************)
(* Claims about the order of registration.                                 *)
(***************************************************************************)
\* The paths in the order the claim gives: the local paths, then the
\* built-in default paths of unnamed/part_000.
PathsInOrder ==
  (IF binDir.ok THEN LocalPathsOf(binDir) ELSE << >>)
    \o (IF entry = "unnamed/part_000" THEN DefaultPaths ELSE << >>)

\* The names of the descriptors among the exports of the files, file by
\* file in the order of the paths and export by export within a file.
NamesInOrder ==
  LET kept == Filter(Flat([i \in 1..Len(PathsInOrder) |->
                             ModuleAt(PathsInOrder[i]).exports]))
  IN  [i \in 1..Len(kept) |-> kept[i].name]

RegisteredOrder == [i \in 1..Len(registered) |-> registered[i].name]

\* C25: the order in which the subcommands are registered is that of the
\* discovered paths, local ones first, and of the exports within a file,
\* whatever the order in which the imports completed.
C25_RegisteredInPathOrder ==
  /\ pc \in {"adapted", "registered", "done"} =>
       [i \in 1..Len(subcommands) |-> subcommands[i].name] = NamesInOrder
  /\ pc \in {"registered", "done"} => RegisteredOrder = NamesInOrder
  /\ abortCause = "register" =>
       /\ Len(RegisteredOrder) < Len(NamesInOrder)
       /\ RegisteredOrder = SubSeq(NamesInOrder, 1, Len(RegisteredOrder))

\* The import of the last path completed first, and the commands of three
\* files are registered in the order of the paths.
C25_Witness ==
  /\ pc = "done"
  /\ Len(settled) = 3
  /\ settled[1] = 3
  /\ settled[2] = 1
  /\ RegisteredOrder = <<"deploy", "build", "init-deno">>

(***************************************************************************)
(* Claims about the prepareStackTrace hook.                                *)
(***************************************************************************)
NoTemporaryHookLeft == callsitesPc = "idle" => prepareStackTrace # TemporaryHook

\* A call of callsites begins, goes on, ends.
CallBegins == callsitesPc = "idle" /\ callsitesPc' # "idle"

CallGoesOn == callsitesPc # "idle"

CallEnds == callsitesPc # "idle" /\ callsitesPc' = "idle"

\* C26: a call of callsites, by the program or by a log call, whether it
\* returns or throws, ends with Error.prepareStackTrace equal to the value
\* it had when the call began; between calls the hook is never the
\* temporary hook of callsites.
C26_HookRestored ==
  /\ [] NoTemporaryHookLeft
  /\ [][CallBegins => savedPrepareStackTrace' = prepareStackTrace]_vars
  /\ [][CallGoesOn => savedPrepareStackTrace' = savedPrepareStackTrace]_vars
  /\ [][CallEnds => prepareStackTrace' = savedPrepareStackTrace]_vars

\* A call made for a log call has thrown and the program's hook is back.
C26_Witness ==
  /\ callsitesPc = "idle"
  /\ callsitesCall.caller = "log"
  /\ callsitesCall.outcome = "threw"
  /\ prepareStackTrace = "user hook"

(***************************************************************************)
(* Claims about sub-loggers.                                               *)
(***************************************************************************)
\* The sub-logger's settings are the parent's, overridden.
SubLoggerMerged ==
  subLogger.class # "none" =>
    \E overrides \in Overrides :
      subLogger.settings = MergeSettings(parentLogger.settings, overrides)

\* C27: every logger, built with new Logger or obtained from getSubLogger,
\* formats in the mode its own settings name; the sub-logger's settings
\* are the parent's overridden by the given ones, and the parent stays as
\* it was.
C27_FormatsInOwnMode ==
  /\ [](formattedBy.logger # "none" => formattedBy.mode = formattedBy.settingsMode)
  /\ [] SubLoggerMerged
  /\ [][parentLogger' = parentLogger]_vars

\* The same for sub-loggers of the parent's mode.
C27_HoldsForParentMode ==
  /\ []((/\ formattedBy.logger # "none"
          /\ formattedBy.settingsMode = parentLogger.settings.mode)
           => formattedBy.mode = formattedBy.settingsMode)
  /\ [] SubLoggerMerged
  /\ [][parentLogger' = parentLogger]_vars

(***************************************************************************)
(* Claims about staged rendering.                                          *)
(***************************************************************************)
\* template.render(r) in one call: whether it throws, and its result.
OneShot(tpl, r) ==
  LET result == RenderText(tpl, r, TRUE)
  IN  [result |-> IF ValidateThrows(result) THEN << >> ELSE result,
       threw |-> ValidateThrows(result)]

StagedAgreesWithOneShot ==
  LET one == OneShot(template, deepMerge(rendered.replacements, staged.replacements))
  IN  /\ staged.threw = one.threw
      /\ staged.result = one.result

\* C28: template.partialRender(r1).render(r2), for r1 and r2 of different
\* keys, returns what template.render(r1 merged with r2) returns, and
\* throws when that throws.
C28_StagedAgreesWithOneShot == staged.kind # "none" => StagedAgreesWithOneShot

\* A value or a default with a brace in it, or a default named like a member
\* of Object.prototype.
Braced(rep) ==
  \E i \in 1..Len(rep) : \E j \in 1..Len(rep[i].value) : rep[i].value[j] \in {"{", "}"}

PrototypeNamed(rep) == \E i \in 1..Len(rep) : rep[i].key \in ObjectPrototypeKeys

\* The same for values without braces and defaults with names of their own.
C28_HoldsForPlainValues ==
  (/\ staged.kind # "none"
   /\ ~Braced(rendered.replacements)
   /\ ~Braced(staged.replacements)
   /\ ~PrototypeNamed(template.replacements))
    => StagedAgreesWithOneShot

(***************************************************************************)
(* Claims about render and covered placeholders.                           *)
(***************************************************************************)
\* Every placeholder of the template text has a value among the supplied
\* replacements or the defaults.
AllPlaceholdersCovered ==
  LET rep == deepMerge(template.replacements, rendered.replacements)
      found == matchAll(template.text)
  IN  \A i \in 1..Len(found) : \E k \in KeysOf(rep) : found[i] = Placeholder(k)

\* C29: render does not throw when every placeholder of the template text
\* has a value among the supplied replacements or the defaults, whatever
\* the values are and in whatever order the keys are given.
C29_CoveredRenderDoesNotThrow ==
  (rendered.kind = "render" /\ AllPlaceholdersCovered) => ~rendered.threw

\* A value with a brace or a dollar sign in it.
Marked(rep) ==
  \E i \in 1..Len(rep) : \E j \in 1..Len(rep[i].value) :
    rep[i].value[j] \in {"{", "}", "$"}

\* The same for values without braces and dollar signs.
C29_HoldsForUnmarkedValues ==
  (/\ rendered.kind = "render"
   /\ AllPlaceholdersCovered
   /\ ~Marked(rendered.replacements)
   /\ ~Marked(template.replacements))
    => ~rendered.threw

(***************************************************************************)
(* Claims about init-deno.                                                 *)
(***************************************************************************)
\* The positions of the events of a kind.
EventsOf(kind) == { i \in 1..Len(events) : events[i][1] = kind }

TargetDir == <<"proj">>

CreatedFiles ==
  { <<"proj", ".vscode", "extensions.json">>, <<"proj", ".vscode", "settings.json">>,
    <<"proj", "LICENSE">> }

\* The filesystem is as it was before the command.
Untouched ==
  /\ fsDirs = IF targetExisted THEN {TargetDir} ELSE {}
  /\ fsFiles = {}

InitDenoEnded == initDenoOutcome \in {"resolved", "rejected"}

\* Every fetch is completed before the filesystem is changed.
FetchesFirst ==
  ~Untouched => { events[i][2] : i \in EventsOf("fetch") } = RemoteFiles

\* The directories are there before a file is written, and the files are
\* written into them.
DirectoriesBeforeFiles ==
  fsFiles # {} =>
    /\ {TargetDir, <<"proj", ".vscode">>} \subseteq fsDirs
    /\ fsFiles \subseteq CreatedFiles

\* Success is logged after the last file is written.
LoggedLast == EventsOf("log") # {} => fsFiles = CreatedFiles

\* C30: init-deno completes the three fetches before it touches the
\* filesystem, creates the target directory and .vscode in it before it
\* writes a file, and logs success after the last file; a fetch that fails
\* leaves the filesystem as it was, and on a target that does not exist yet,
\* given with or without a slash at its end, the command succeeds.
C30_FetchThenCreateThenWrite ==
  /\ FetchesFirst
  /\ DirectoriesBeforeFiles
  /\ LoggedLast
  /\ (InitDenoEnded /\ unreachable # {}) => (initDenoOutcome = "rejected" /\ Untouched)
  /\ (InitDenoEnded /\ unreachable = {} /\ ~targetExisted) =>
       /\ initDenoOutcome = "resolved"
       /\ fsFiles = CreatedFiles
       /\ EventsOf("log") # {}

\* The same for the action of unnamed/part_001 alone.
C30_HoldsInPart001 ==
  initDenoSource = "unnamed/part_001" => C30_FetchThenCreateThenWrite
====
